---- MODULE Spec2Model ----
(***************************************************************************)
(* Sentinel monitoring engine: the per-endpoint state machine              *)
(* (internal/checker/result.go), the two callers that thread a probe       *)
(* through it (Scheduler.executeCheck and Scheduler.TriggerCheck in        *)
(* internal/checker/scheduler.go), the SQLite store they share, and the    *)
(* alert dispatcher (internal/alerter/manager.go).                         *)
(*                                                                         *)
(* One endpoint (check id 1) is modelled.  Time is counted in minutes.     *)
(* Every storage call is one atomic step; a task's position between two    *)
(* storage calls is its pc.  The scheduler's worker map (Start, AddCheck,   *)
(* RemoveCheck, UpdateCheck) is modelled over two endpoint ids.             *)
(***************************************************************************)
EXTENDS Integers, Sequences, FiniteSets, TLC

\* ---------------------------------------------------------------- bounds
\* probes explored per run of the worker alone
MaxResults == 4
\* probes explored per run once a manual trigger has been made
MaxRaceResults == 3
\* probes explored along a run whose verdicts are all down (sustained outage)
LongRun == 10
\* last reading of the clock, in minutes
MaxTime == 1
\* largest configured consecutive_failures
MaxThreshold == 2
\* largest configured cooldown_minutes
MaxCooldown == 1
\* manual triggers explored per run
MaxTriggers == 1
\* direct calls of the dispatcher explored in AlerterSpec
MaxCalls == 3
\* scheduledChecks made per run of SchedSpec
MaxWorkers == 2
\* Start calls per run of SchedSpec
MaxStarts == 1
MaxRows == 3            \* stored results in the retention runs
MaxStamp == 2           \* the last clock value in the retention runs
MaxLate == 2            \* probes counted per task after the stop broadcast
MaxReloads == 1         \* ReloadChecks calls that reach their Start
MaxSweeps == 2          \* sweeps counted per retention task
MaxIncidents == 1       \* incident rows in the runs of the incident table
MaxConns == 2           \* connections the pool opens in the runs of the tables
MaxInstant == 3         \* the last clock value in those runs
SubSecond == 2          \* clock values per second in those runs

\* ------------------------------------------------------ program constants
\* the threshold used when the configured one is below 1
DefaultThreshold == 2
\* the status code expected when a check's expected status is 0
DefaultExpectedStatus == 200

\* the ticker interval used when the endpoint's interval is below one second
DefaultIntervalSecs == 60
\* the retention doCleanup uses when none is configured, in days
DefaultRetentionDays == 7
\* time.Duration is a signed 64-bit count of nanoseconds: 2^64 ns are
\* 213503.98 days, taken here as whole days
DurationWrapDays == 213504

\* the nil error
Nil == ""

CheckID == 1
\* the ids the scheduler's clients use; only CheckID is ever probed
EndpointIDs == {1, 2}
Tasks == {"worker", "trigger"}
ChannelOrder == <<"email", "slack", "discord">>
Channels == {ChannelOrder[k] : k \in 1..Len(ChannelOrder)}

VARIABLES
    consecutiveFailures,   \* Scheduler.config.ConsecutiveFailures
    cooldownMinutes,       \* AlertsConfig.CooldownMinutes
    recoveryNotification,  \* AlertsConfig.RecoveryNotification
    enabled,               \* channels whose sender the Manager holds (non-nil)
    results,               \* table check_results, in insertion order
    incidents,             \* table incidents, row id = index
    alertLog,              \* table alert_log, in insertion order
    now,                   \* wall clock, minutes
    pc,                    \* per task: position inside executeCheck/TriggerCheck
    status,                \* per task: check.Status handed to ProcessResult
    result,                \* per task: the CheckResult built from the probe
    incident,              \* per task: id of the incident being created/closed
    dispatches,            \* history of Manager calls and the senders they invoked
    triggers,              \* manual TriggerCheck calls made so far
    openedAfter,           \* per incident: how many results were stored when it was created
    returned,              \* per task: what its last ProcessResult call returned
    storeFails,            \* whether a storage call of ProcessResult may return an error
    endpoints,             \* table checks: id -> the stored endpoint
    checks,                \* Scheduler.checks: id -> index of its scheduledCheck in workers
    workers,               \* every scheduledCheck made, with the task started for it
    sweepers,              \* runCleanupJob tasks started
    call,                  \* the last call of the scheduler's API and what it returned
    exec,                  \* one HTTPChecker.Execute call and the verdict on its response
    stopChan,              \* Scheduler.stopChan: "open" or "closed"
    stopper,               \* the task that called Stop: where it is, what ran at the call
    running,               \* where each task started by scheduleCheck is in runCheck
    callers,               \* the UpdateCheck or ReloadChecks call each client is in
    sweeping,              \* where each runCleanupJob task is, and what it swept
    retentionDays,         \* SchedulerConfig.RetentionDays
    pool,                  \* sql.DB: the open connections, their foreign_keys setting and user
    stmts                  \* per session of the store: the statement it is executing

cfgVars ==
    <<consecutiveFailures, cooldownMinutes, recoveryNotification, enabled,
      retentionDays>>
storeVars == <<results, incidents, alertLog>>
taskVars == <<pc, status, result, incident, returned>>
\* what lies outside the engine: the store's health and the HTTP exchange
envVars == <<storeFails, exec, pool, stmts>>
schedVars == <<endpoints, checks, workers, sweepers, call>>
\* shutdown and the worker tasks' positions
lifeVars == <<stopChan, stopper, running, callers, sweeping>>
\* everything but the scheduler's worker map
machineVars ==
    <<cfgVars, envVars, lifeVars, storeVars, taskVars, now, dispatches, triggers,
      openedAfter>>
vars == <<cfgVars, envVars, lifeVars, schedVars, storeVars, taskVars, now,
          dispatches, triggers, openedAfter>>

\* ------------------------------------------------------------ probe side
\* what one probe can return: 200, 500, or a transport error without a reply
Responses ==
    { [error |-> "", status_code |-> 200],
      [error |-> "", status_code |-> 500],
      [error |-> "connection refused", status_code |-> 0] }

ExpectedStatuses == {0, 200}

DetermineStatus(response, expectedStatus) ==
    IF response.error # "" THEN "down"
    ELSE LET expected == IF expectedStatus = 0 THEN DefaultExpectedStatus
                         ELSE expectedStatus
         IN  IF response.status_code # expected THEN "down" ELSE "up"

\* the CheckResult ProcessResult builds from a response; of its fields only
\* the status decides anything below (the error text is copied into the
\* incident's cause and is read by nobody)
BuildResult(response, expectedStatus) ==
    [check_id |-> CheckID, status |-> DetermineStatus(response, expectedStatus)]

NoResult == [check_id |-> 0, status |-> ""]

\* ------------------------------------------------------------ store reads
Min(a, b) == IF a < b THEN a ELSE b

\* newest first, at most count rows
GetRecentResults(count) ==
    [k \in 1..Min(count, Len(results)) |-> results[Len(results) - k + 1]]

\* the status the callers derive from GetLatestResult
LatestStatus ==
    IF results = <<>> THEN "pending" ELSE results[Len(results)].status

IsActive(i) == incidents[i].ended_at = <<>>

\* GetActiveIncident with the WHERE clause inverted (ended_at IS NOT NULL)
ActiveIncidents_EndedOnly == {i \in 1..Len(incidents) : ~ IsActive(i)}

\* the rows GetActiveIncident selects from: ended_at IS NULL
ActiveIncidents == {i \in 1..Len(incidents) : IsActive(i)}

\* newest alert_log row of an incident on a channel, 0 when there is none
GetLastAlertForIncident(incidentID, channel) ==
    LET ks == {k \in 1..Len(alertLog) :
                   /\ alertLog[k].incident_id = incidentID
                   /\ alertLog[k].channel = channel}
    IN  IF ks = {} THEN 0 ELSE CHOOSE k \in ks : \A j \in ks : j <= k

NewScheduler(configured) ==
    IF configured < 1 THEN DefaultThreshold ELSE configured

\* ------------------------------------------------------------ HTTP probe
\* the delay NewHTTPChecker configures before the one retry, in seconds
DefaultRetryDelaySecs == 5

NoResponse == [error |-> "", status_code |-> 0]

\* no Execute call was made
NoExec ==
    [pc |-> "idle", expected |-> 0, retry_delay |-> 0, attempts |-> <<>>,
     out |-> NoResponse, response |-> NoResponse, status |-> "",
     success |-> FALSE]

\* IsSuccess comparing with the expected status as given, 0 included
IsSuccess_NoDefault(response, expectedStatus) ==
    /\ response.error = ""
    /\ response.status_code = expectedStatus

IsSuccess(response, expectedStatus) ==
    IF response.error # "" THEN FALSE
    ELSE LET expected == IF expectedStatus = 0 THEN DefaultExpectedStatus
                         ELSE expectedStatus
         IN  response.status_code = expected

\* Execute retrying whenever the first attempt failed
ShouldRetry_IgnoresDelay(first, expectedStatus, retryDelay) ==
    ~ IsSuccess(first, expectedStatus)

\* the test Execute makes after its first attempt
ShouldRetry(first, expectedStatus, retryDelay) ==
    ~ IsSuccess(first, expectedStatus) /\ retryDelay > 0

\* every CheckResponse value: with or without an error, with any of these codes
AllResponses ==
    [error : {"", "timeout"}, status_code : {0, 200, 404, 500}]

\* what doRequest returns: an error without a status code, or a status code
AttemptResponses ==
    {r \in AllResponses : r.error # "" => r.status_code = 0}

AllExpectedStatuses == {0, 200, 404}

\* RetryDelay in seconds: negative, zero (retry disabled), the default
RetryDelays == {-1, 0, DefaultRetryDelaySecs}

\* the sessions that use the store side by side: the endpoint's worker and
\* the HTTP handler
Sessions == {"worker", "handler"}

\* PRAGMA foreign_keys of a connection the pool opens: SQLite's default
NewConnForeignKeys == FALSE

\* the pool after NewSQLiteStorage: the one connection that ran
\* PRAGMA foreign_keys=ON and the migrations, idle
OpenedPool == <<[foreign_keys |-> TRUE, user |-> Nil]>>

NoStatement == [at |-> "idle", stmt |-> Nil, conn |-> 0, check |-> 0, incident |-> 0]

EnvInit(fails) ==
    /\ storeFails = fails
    /\ exec = NoExec
    /\ pool = OpenedPool
    /\ stmts = [s \in Sessions |-> NoStatement]

\* ---------------------------------------------------------------- Init
\* the sender sets explored with the state machine: none, or email alone
\* (AlerterSpec explores every set)
MachineChannels == {{}, {"email"}}

TaskInit ==
    /\ pc = [t \in Tasks |-> "idle"]
    /\ status = [t \in Tasks |-> ""]
    /\ result = [t \in Tasks |-> NoResult]
    /\ incident = [t \in Tasks |-> 0]
    /\ returned = [t \in Tasks |-> Nil]

\* a stored endpoint, of which the scheduler reads the id, the interval and
\* the enabled flag
Check(id, isEnabled, intervalSecs) ==
    [id |-> id, enabled |-> isEnabled, interval_seconds |-> intervalSecs]

\* the scheduledCheck made by scheduleCheck, with the task started for it
ScheduledCheck(check) ==
    [check |-> check,
     ticker |-> IF check.interval_seconds < 1 THEN DefaultIntervalSecs
                ELSE check.interval_seconds,
     stop |-> "open"]

NoCheck == Check(0, FALSE, 0)

NoCall == [op |-> "", id |-> 0, check |-> NoCheck, err |-> Nil]

\* Stop has not been called, and no started task has left its jitter sleep
NoStop == [pc |-> "idle", before |-> 0]

\* the clients that call the scheduler at the same time
Clients == {1, 2}

\* a client that is not inside UpdateCheck
NoUpdate == [pc |-> "idle", check |-> NoCheck]

NotStopped ==
    /\ stopChan = "open"
    /\ stopper = NoStop
    /\ running = [i \in {} |-> 0]
    /\ callers = [c \in Clients |-> NoUpdate]
    /\ sweeping = [k \in {} |-> 0]

\* the scheduler after Start, with endpoint CheckID stored and enabled
InstalledInit ==
    /\ endpoints = [i \in {CheckID} |-> Check(CheckID, TRUE, DefaultIntervalSecs)]
    /\ checks = [i \in {CheckID} |-> 1]
    /\ workers = <<ScheduledCheck(Check(CheckID, TRUE, DefaultIntervalSecs))>>
    /\ sweepers = 1
    /\ call = NoCall

StoreInit ==
    /\ results = <<>>
    /\ incidents = <<>>
    /\ alertLog = <<>>
    /\ dispatches = <<>>
    /\ now = 0
    /\ triggers = 0
    /\ openedAfter = <<>>

ConfigInit(channelSets) ==
    /\ consecutiveFailures \in {NewScheduler(c) : c \in 0..MaxThreshold}
    /\ cooldownMinutes \in 0..MaxCooldown
    /\ recoveryNotification \in BOOLEAN
    /\ retentionDays = DefaultRetentionDays
    /\ enabled \in channelSets

Init ==
    /\ ConfigInit(MachineChannels) /\ StoreInit /\ TaskInit /\ InstalledInit
    /\ EnvInit(FALSE)
    /\ NotStopped

SeqInit ==
    /\ ConfigInit(SUBSET Channels) /\ StoreInit /\ TaskInit /\ InstalledInit
    /\ EnvInit(FALSE)
    /\ NotStopped

\* ------------------------------------------------------------ dispatcher
shouldSendAlert(incidentID) ==
    LET k == GetLastAlertForIncident(incidentID, "email")
    IN  ~ ( /\ k # 0
            /\ alertLog[k].success
            /\ now - alertLog[k].sent_at < cooldownMinutes )

\* sendAlert giving up at the first sender that fails: rows up to that one
logAlert_StopAtFailure(incidentID, ok) ==
    LET chans == SelectSeq(ChannelOrder, LAMBDA c : c \in enabled)
        stop == IF \A k \in 1..Len(chans) : chans[k] \in ok THEN Len(chans)
                ELSE CHOOSE k \in 1..Len(chans) :
                         /\ chans[k] \notin ok
                         /\ \A j \in 1..(k - 1) : chans[j] \in ok
    IN  [k \in 1..stop |->
            [incident_id |-> incidentID, channel |-> chans[k],
             sent_at |-> now, success |-> chans[k] \in ok]]

\* the rows one dispatch logs: one per enabled sender, in the order the
\* senders are invoked; ok is the set of channels whose Send returned nil
logAlert(incidentID, ok) ==
    LET chans == SelectSeq(ChannelOrder, LAMBDA c : c \in enabled)
    IN  [k \in 1..Len(chans) |->
            [incident_id |-> incidentID, channel |-> chans[k],
             sent_at |-> now, success |-> chans[k] \in ok]]

\* the error sendAlert returns: that of the last sender that failed
lastErr(invoked, ok) ==
    LET failed == SelectSeq(ChannelOrder, LAMBDA c : c \in invoked \ ok)
    IN  IF failed = <<>> THEN Nil ELSE failed[Len(failed)]

\* one call of the Manager: cooldown says whether the alert log was read
Dispatch(type, incidentID, cooldown, invoked, ok) ==
    [type |-> type, incident_id |-> incidentID, at |-> now,
     cooldown |-> cooldown, invoked |-> invoked, ok |-> ok,
     err |-> lastErr(invoked, ok)]

sendAlert(type, incidentID) ==
    IF ~ shouldSendAlert(incidentID)
    THEN /\ alertLog' = alertLog
         /\ dispatches' =
                Append(dispatches, Dispatch(type, incidentID, TRUE, {}, {}))
    ELSE \E ok \in SUBSET enabled :
            /\ alertLog' = alertLog \o logAlert(incidentID, ok)
            /\ dispatches' =
                   Append(dispatches, Dispatch(type, incidentID, TRUE, enabled, ok))

ManagerSendDownAlert(incidentID) == sendAlert("down", incidentID)

\* SendRecoveryAlert without its recovery_notification test
ManagerSendRecoveryAlert_Always(incidentID) == sendAlert("recovery", incidentID)

ManagerSendRecoveryAlert(incidentID) ==
    IF ~ recoveryNotification
    THEN /\ alertLog' = alertLog
         /\ dispatches' =
                Append(dispatches, Dispatch("recovery", incidentID, FALSE, {}, {}))
    ELSE sendAlert("recovery", incidentID)

\* ------------------------------------------------------- state machine
AllDown(rs) == \A k \in 1..Len(rs) : rs[k].status = "down"

ProbeBudget ==
    IF AllDown(results) THEN LongRun
    ELSE IF triggers = 0 THEN MaxResults ELSE MaxRaceResults

Goto(t, label) ==
    /\ pc' = [pc EXCEPT ![t] = label]
    /\ returned' = returned

\* a caller that leaves its loop when ProcessResult returned an error
AfterProcessResult_ExitOnError(err) == IF err = Nil THEN "idle" ELSE "exited"

\* where a caller is once ProcessResult has returned err: executeCheck prints
\* the error and goes back to the worker's loop, TriggerCheck returns
AfterProcessResult(err) == "idle"

\* the task leaves ProcessResult with err and forgets its locals
ReturnErr(t, err) ==
    /\ pc' = [pc EXCEPT ![t] = AfterProcessResult(err)]
    /\ returned' = [returned EXCEPT ![t] = err]
    /\ status' = [status EXCEPT ![t] = ""]
    /\ result' = [result EXCEPT ![t] = NoResult]
    /\ incident' = [incident EXCEPT ![t] = 0]

Return(t) == ReturnErr(t, Nil)

\* GetCheck, GetLatestResult and the probe itself: the previous status is
\* read here, the verdict is stored only by the next step
LoadAndProbe(t) ==
    /\ pc[t] = "idle"
    /\ Len(results) < ProbeBudget
    /\ triggers' = triggers + (IF t = "trigger" THEN 1 ELSE 0)
    /\ \E response \in Responses, expectedStatus \in ExpectedStatuses :
           result' = [result EXCEPT ![t] = BuildResult(response, expectedStatus)]
    /\ status' = [status EXCEPT ![t] = LatestStatus]
    /\ Goto(t, "SaveResult")
    /\ UNCHANGED <<cfgVars, envVars, lifeVars, storeVars, incident, now, dispatches, openedAfter>>

\* the task started for the endpoint's scheduledCheck is in its loop
WorkerRunning(id) ==
    /\ id \in DOMAIN checks
    /\ workers[checks[id]].stop = "open"

\* one tick of the endpoint's worker
executeCheck ==
    /\ WorkerRunning(CheckID)
    /\ LoadAndProbe("worker")
    /\ UNCHANGED schedVars

\* what a storage call can return
StoreErrors == IF storeFails THEN {Nil, "database error"} ELSE {Nil}

\* manual triggers explored: one beside a running worker, a sequence of them
\* when no worker runs
TriggerBudget == IF WorkerRunning(CheckID) THEN MaxTriggers ELSE MaxRaceResults

\* TriggerCheck probing an endpoint that GetCheck did not find
TriggerFailed_Probes(id, err) ==
    /\ LoadAndProbe("trigger")
    /\ call' = [op |-> "TriggerCheck", id |-> id, check |-> NoCheck, err |-> Nil]
    /\ UNCHANGED <<endpoints, checks, workers, sweepers>>

\* TriggerCheck returns err before any probe
TriggerFailed(id, err) ==
    /\ returned' = [returned EXCEPT !["trigger"] = err]
    /\ triggers' = triggers + 1
    /\ call' = [op |-> "TriggerCheck", id |-> id, check |-> NoCheck, err |-> err]
    /\ UNCHANGED <<cfgVars, envVars, lifeVars, storeVars, pc, status, result, incident, now,
                   dispatches, openedAfter, endpoints, checks, workers, sweepers>>

\* the "run now" hook, called while the worker may be in the middle of a tick
TriggerCheck ==
    /\ triggers < TriggerBudget
    /\ pc["trigger"] = "idle"
    /\ \E id \in EndpointIDs, err \in StoreErrors :
           IF err # Nil THEN TriggerFailed(id, "getting check")
           ELSE IF id \notin DOMAIN endpoints THEN TriggerFailed(id, "check not found")
           ELSE /\ LoadAndProbe("trigger")
                /\ call' = [op |-> "TriggerCheck", id |-> id, check |-> NoCheck, err |-> Nil]
                /\ UNCHANGED <<endpoints, checks, workers, sweepers>>

\* ProcessResult with the first-check test dropped: pending counts as up
AfterSave_PendingAsUp(previousStatus, newStatus) ==
    IF newStatus = "down" /\ previousStatus \in {"up", "pending", ""} THEN "ShouldAlert"
    ELSE IF newStatus = "up" /\ previousStatus = "down" THEN "GetActiveIncident"
    ELSE "idle"

\* ProcessResult taking a down verdict after a down one for a transition
AfterSave_DownAsUp(previousStatus, newStatus) ==
    IF previousStatus = "" \/ previousStatus = "pending" THEN "idle"
    ELSE IF newStatus = "down" THEN "ShouldAlert"
    ELSE IF newStatus = "up" /\ previousStatus = "down" THEN "GetActiveIncident"
    ELSE "idle"

\* where ProcessResult continues after the result is stored
AfterSave(previousStatus, newStatus) ==
    IF previousStatus = "" \/ previousStatus = "pending" THEN "idle"
    ELSE IF newStatus = "down" /\ previousStatus = "up" THEN "ShouldAlert"
    ELSE IF newStatus = "up" /\ previousStatus = "down" THEN "GetActiveIncident"
    ELSE "idle"

\* ProcessResult going on after store.SaveResult returned an error
SaveFailed_Continues(t) ==
    /\ results' = results
    /\ LET next == AfterSave(status[t], result[t].status)
       IN  IF next = "idle" THEN ReturnErr(t, "saving result")
           ELSE Goto(t, next) /\ UNCHANGED <<status, result, incident>>

\* store.SaveResult returned an error
SaveFailed(t) ==
    /\ results' = results
    /\ ReturnErr(t, "saving result")

SaveResult(t) ==
    /\ pc[t] = "SaveResult"
    /\ \E err \in StoreErrors :
           IF err # Nil THEN SaveFailed(t)
           ELSE /\ results' = Append(results, result[t])
                /\ LET next == AfterSave(status[t], result[t].status)
                   IN  IF next = "idle" THEN Return(t)
                       ELSE Goto(t, next) /\ UNCHANGED <<status, result, incident>>
    /\ UNCHANGED <<cfgVars, envVars, lifeVars, schedVars, incidents, alertLog, now, dispatches, openedAfter, triggers>>

\* ShouldAlert up to its GetActiveIncident call
EnoughFailures(recent, threshold) ==
    /\ Len(recent) >= threshold
    /\ \A k \in 1..Len(recent) : recent[k].status # "up"

ShouldAlertThreshold(threshold) ==
    IF threshold < 1 THEN DefaultThreshold ELSE threshold

ShouldAlertResults(t) ==
    /\ pc[t] = "ShouldAlert"
    /\ \E err \in StoreErrors :
           LET threshold == ShouldAlertThreshold(consecutiveFailures)
           IN  IF err # Nil THEN ReturnErr(t, "checking alert threshold")
               ELSE IF EnoughFailures(GetRecentResults(threshold), threshold)
               THEN Goto(t, "ShouldAlertIncident") /\ UNCHANGED <<status, result, incident>>
               ELSE Return(t)
    /\ UNCHANGED <<cfgVars, envVars, lifeVars, schedVars, storeVars, now, dispatches, openedAfter, triggers>>

\* the rest of ShouldAlert: no incident may be open
NoActiveIncident == ActiveIncidents = {}

ShouldAlertIncident(t) ==
    /\ pc[t] = "ShouldAlertIncident"
    /\ \E err \in StoreErrors :
           IF err # Nil THEN ReturnErr(t, "checking alert threshold")
           ELSE IF NoActiveIncident
           THEN Goto(t, "CreateIncident") /\ UNCHANGED <<status, result, incident>>
           ELSE Return(t)
    /\ UNCHANGED <<cfgVars, envVars, lifeVars, schedVars, storeVars, now, dispatches, openedAfter, triggers>>

NewIncident(checkID) ==
    [check_id |-> checkID, started_at |-> now, ended_at |-> <<>>,
     duration_seconds |-> 0]

CreateIncident(t) ==
    /\ pc[t] = "CreateIncident"
    /\ \E err \in StoreErrors :
           IF err # Nil
           THEN /\ ReturnErr(t, "creating incident")
                /\ UNCHANGED <<incidents, openedAfter>>
           ELSE /\ incidents' = Append(incidents, NewIncident(result[t].check_id))
                /\ incident' = [incident EXCEPT ![t] = Len(incidents) + 1]
                /\ Goto(t, "SendDownAlert")
                /\ openedAfter' = Append(openedAfter, Len(results))
                /\ UNCHANGED <<status, result>>
    /\ UNCHANGED <<cfgVars, envVars, lifeVars, schedVars, results, alertLog, now, dispatches, triggers>>

\* ProcessResult handing the dispatcher's error to its caller
AlertFailed_Propagates(err) == err

\* what ProcessResult returns after the dispatcher returned err: the failure
\* is printed and monitoring goes on
AlertFailed(err) == Nil

SendDownAlert(t) ==
    /\ pc[t] = "SendDownAlert"
    /\ ManagerSendDownAlert(incident[t])
    /\ ReturnErr(t, AlertFailed(dispatches'[Len(dispatches')].err))
    /\ UNCHANGED <<cfgVars, envVars, lifeVars, schedVars, results, incidents, now, openedAfter, triggers>>

\* the recovery branch: QueryRow returns one of the open incidents, if any
GetActiveIncident(t) ==
    /\ pc[t] = "GetActiveIncident"
    /\ \E err \in StoreErrors :
           IF err # Nil THEN ReturnErr(t, "getting active incident")
           ELSE IF ActiveIncidents = {}
           THEN Return(t)
           ELSE /\ \E i \in ActiveIncidents : incident' = [incident EXCEPT ![t] = i]
                /\ Goto(t, "CloseIncident")
                /\ UNCHANGED <<status, result>>
    /\ UNCHANGED <<cfgVars, envVars, lifeVars, schedVars, storeVars, now, dispatches, openedAfter, triggers>>

Closed(row, endedAt) ==
    [row EXCEPT !.ended_at = <<endedAt>>,
                !.duration_seconds = (endedAt - row.started_at) * 60]

CloseIncident(t) ==
    /\ pc[t] = "CloseIncident"
    /\ \E err \in StoreErrors :
           IF err # Nil
           THEN /\ ReturnErr(t, "closing incident")
                /\ incidents' = incidents
           ELSE /\ incidents' = [incidents EXCEPT ![incident[t]] = Closed(@, now)]
                /\ Goto(t, "SendRecoveryAlert")
                /\ UNCHANGED <<status, result, incident>>
    /\ UNCHANGED <<cfgVars, envVars, lifeVars, schedVars, results, alertLog, now, dispatches, openedAfter, triggers>>

SendRecoveryAlert(t) ==
    /\ pc[t] = "SendRecoveryAlert"
    /\ ManagerSendRecoveryAlert(incident[t])
    /\ ReturnErr(t, AlertFailed(dispatches'[Len(dispatches')].err))
    /\ UNCHANGED <<cfgVars, envVars, lifeVars, schedVars, results, incidents, now, openedAfter, triggers>>

Tick ==
    /\ now < MaxTime
    /\ now' = now + 1
    /\ UNCHANGED <<cfgVars, envVars, lifeVars, schedVars, storeVars, taskVars, dispatches, openedAfter, triggers>>

ProcessResult(t) ==
    \/ SaveResult(t)
    \/ ShouldAlertResults(t)
    \/ ShouldAlertIncident(t)
    \/ CreateIncident(t)
    \/ SendDownAlert(t)
    \/ GetActiveIncident(t)
    \/ CloseIncident(t)
    \/ SendRecoveryAlert(t)

\* the endpoint's worker alone: ticks are processed one after the other
SeqNext ==
    \/ Tick
    \/ executeCheck
    \/ ProcessResult("worker")

SeqSpec == SeqInit /\ [][SeqNext]_vars

\* the worker alone over a store whose calls may fail
FaultInit ==
    /\ ConfigInit(MachineChannels) /\ StoreInit /\ TaskInit /\ InstalledInit
    /\ EnvInit(TRUE)
    /\ NotStopped

FaultSpec == FaultInit /\ [][SeqNext]_vars

\* the worker together with a manual trigger of the same endpoint
Next ==
    \/ Tick
    \/ executeCheck
    \/ TriggerCheck
    \/ \E t \in Tasks : ProcessResult(t)

Spec == Init /\ [][Next]_vars

\* the endpoint is stored but Start was not called: no worker runs
NotStartedInit ==
    /\ endpoints = [i \in {CheckID} |-> Check(CheckID, TRUE, DefaultIntervalSecs)]
    /\ checks = [i \in {} |-> 0]
    /\ workers = <<>>
    /\ sweepers = 0
    /\ call = NoCall

\* manual triggers on a scheduler that was started, or was not
TriggerInit ==
    /\ ConfigInit(MachineChannels) /\ StoreInit /\ TaskInit
    /\ InstalledInit \/ NotStartedInit
    /\ EnvInit(FALSE)
    /\ NotStopped

TriggerSpec == TriggerInit /\ [][Next]_vars

\* ------------------------------------------- the dispatcher driven directly
\* Manager.SendDownAlert and Manager.SendRecoveryAlert called by a client on
\* an incident the client has stored, as the package's tests do
AlerterInit ==
    /\ consecutiveFailures = DefaultThreshold
    /\ cooldownMinutes \in 0..MaxCooldown
    /\ recoveryNotification \in BOOLEAN
    /\ retentionDays = DefaultRetentionDays
    /\ enabled \in SUBSET Channels
    /\ now = 0
    /\ results = <<>>
    /\ incidents = <<NewIncident(CheckID)>>
    /\ openedAfter = <<0>>
    /\ alertLog = <<>>
    /\ dispatches = <<>>
    /\ triggers = 0
    /\ TaskInit
    /\ InstalledInit
    /\ EnvInit(FALSE)
    /\ NotStopped

CallSendDownAlert ==
    /\ Len(dispatches) < MaxCalls
    /\ \E i \in DOMAIN incidents : ManagerSendDownAlert(i)
    /\ UNCHANGED <<cfgVars, envVars, lifeVars, schedVars, results, incidents, taskVars, now, triggers, openedAfter>>

CallSendRecoveryAlert ==
    /\ Len(dispatches) < MaxCalls
    /\ \E i \in DOMAIN incidents : ManagerSendRecoveryAlert(i)
    /\ UNCHANGED <<cfgVars, envVars, lifeVars, schedVars, results, incidents, taskVars, now, triggers, openedAfter>>

AlerterNext ==
    \/ Tick
    \/ CallSendDownAlert
    \/ CallSendRecoveryAlert

AlerterSpec == AlerterInit /\ [][AlerterNext]_vars

\* ------------------------------------------------ the scheduler's worker map
\* Start, AddCheck, RemoveCheck and UpdateCheck called one after the other
\* by the scheduler's clients; each call is one step
\* interval_seconds of an endpoint: unset, or thirty seconds
Intervals == {0, 30}

\* the checks a client can pass to AddCheck and UpdateCheck
CheckInputs ==
    {Check(id, isEnabled, secs) :
        id \in EndpointIDs, isEnabled \in BOOLEAN, secs \in Intervals}

\* the part of the Scheduler that its lock guards, with the tasks started
Sched == [checks |-> checks, workers |-> workers]

GetCheckCount == Cardinality(DOMAIN checks)

\* close(ch): closing a closed channel is a run-time panic
Close(ch) == IF ch = "open" THEN "closed" ELSE "panic"

\* scheduleCheck putting a new scheduledCheck over the one already recorded
scheduleCheck_NoExistsTest(st, check) ==
    [checks |-> [i \in DOMAIN st.checks \cup {check.id} |->
                    IF i = check.id THEN Len(st.workers) + 1 ELSE st.checks[i]],
     workers |-> Append(st.workers, ScheduledCheck(check))]

scheduleCheck(st, check) ==
    IF check.id \in DOMAIN st.checks THEN st
    ELSE [checks |-> [i \in DOMAIN st.checks \cup {check.id} |->
                         IF i = check.id THEN Len(st.workers) + 1 ELSE st.checks[i]],
          workers |-> Append(st.workers, ScheduledCheck(check))]

\* RemoveCheck leaving the record in the map
RemoveCheckIn_Keeps(st, id) == st

\* the effect of RemoveCheck on the map and on the worker's stop channel;
\* a close that panics leaves the call before the delete
RemoveCheckIn(st, id) ==
    IF id \notin DOMAIN st.checks THEN st
    ELSE IF st.workers[st.checks[id]].stop # "open"
    THEN [checks |-> st.checks,
          workers |-> [st.workers EXCEPT ![st.checks[id]].stop = Close(@)]]
    ELSE [checks |-> [i \in DOMAIN st.checks \ {id} |-> st.checks[i]],
          workers |-> [st.workers EXCEPT ![st.checks[id]].stop = Close(@)]]

\* ListEnabledChecks returning the disabled endpoints too
EnabledEndpoints_All == DOMAIN endpoints

\* WHERE enabled = 1
EnabledEndpoints == {i \in DOMAIN endpoints : endpoints[i].enabled}

\* the rows come ordered by name, which is any order of the ids
ListEnabledChecks ==
    {list \in [1..Cardinality(EnabledEndpoints) -> EnabledEndpoints] :
        \A j, k \in DOMAIN list : j # k => list[j] # list[k]}

RECURSIVE ScheduleAll(_, _)
\* the loop of Start over the listed checks
ScheduleAll(st, list) ==
    IF list = <<>> THEN st
    ELSE ScheduleAll(scheduleCheck(st, endpoints[Head(list)]), Tail(list))

\* a call leaves the scheduler in state st and returns err
Called(op, id, check, err, st) ==
    /\ Len(st.workers) <= MaxWorkers
    /\ checks' = st.checks
    /\ workers' = st.workers
    /\ call' = [op |-> op, id |-> id, check |-> check, err |-> err]

Start ==
    /\ sweepers < MaxStarts
    /\ \E err \in StoreErrors :
           IF err # Nil
           THEN /\ Called("Start", 0, NoCheck, "loading checks", Sched)
                /\ sweepers' = sweepers
           ELSE /\ \E list \in ListEnabledChecks :
                       Called("Start", 0, NoCheck, Nil, ScheduleAll(Sched, list))
                /\ sweepers' = sweepers + 1
    /\ UNCHANGED <<endpoints, machineVars>>

AddCheck ==
    /\ \E check \in CheckInputs :
           Called("AddCheck", check.id, check, Nil, scheduleCheck(Sched, check))
    /\ UNCHANGED <<endpoints, sweepers, machineVars>>

RemoveCheck ==
    /\ \E id \in EndpointIDs :
           Called("RemoveCheck", id, NoCheck, Nil, RemoveCheckIn(Sched, id))
    /\ UNCHANGED <<endpoints, sweepers, machineVars>>

UpdateCheck ==
    /\ \E check \in CheckInputs :
           LET removed == RemoveCheckIn(Sched, check.id)
           IN  Called("UpdateCheck", check.id, check, Nil,
                      IF check.enabled THEN scheduleCheck(removed, check)
                      ELSE removed)
    /\ UNCHANGED <<endpoints, sweepers, machineVars>>

\* a new scheduler over a store that lists any endpoints
SchedInit ==
    /\ \E ids \in SUBSET EndpointIDs :
       \E isEnabled \in [EndpointIDs -> BOOLEAN], secs \in [EndpointIDs -> Intervals] :
           endpoints = [i \in ids |-> Check(i, isEnabled[i], secs[i])]
    /\ checks = [i \in {} |-> 0]
    /\ workers = <<>>
    /\ sweepers = 0
    /\ call = NoCall
    /\ consecutiveFailures = DefaultThreshold
    /\ cooldownMinutes = 0
    /\ recoveryNotification = TRUE
    /\ retentionDays = DefaultRetentionDays
    /\ enabled = {}
    /\ EnvInit(FALSE)
    /\ NotStopped
    /\ StoreInit
    /\ TaskInit

SchedNext ==
    \/ Start
    \/ AddCheck
    \/ RemoveCheck
    \/ UpdateCheck

SchedSpec == SchedInit /\ [][SchedNext]_vars

\* ------------------------------------------------- worker tasks and shutdown
\* runCheck of every started task, step by step, next to Stop and to the
\* clients that start the scheduler, delete endpoints and remove checks
\* a task that scheduleCheck has just started: in its jitter sleep; late
\* counts the probes it started after the stop broadcast, gone is 1 once an
\* executeCheck found the endpoint missing and 2 once another one followed
NewTask == [at |-> "jitter", late |-> 0, gone |-> 0]

TaskOf(i) == IF i \in DOMAIN running THEN running[i] ELSE NewTask

Tasked(i, task) ==
    running' = [j \in DOMAIN running \cup {i} |-> IF j = i THEN task ELSE running[j]]

\* the first lines of executeCheck: the endpoint is read from the store; the
\* probe starts only if it is there
enterExecuteCheck(i) ==
    LET task == TaskOf(i)
        again == IF task.gone = 0 THEN 0 ELSE 2
    IN  IF workers[i].check.id \notin DOMAIN endpoints
        THEN Tasked(i, [task EXCEPT !.at = "select",
                                    !.gone = IF @ = 0 THEN 1 ELSE 2])
        ELSE Tasked(i, [task EXCEPT !.at = "probe", !.gone = again,
                                    !.late = IF stopChan = "closed"
                                             THEN Min(MaxLate, @ + 1) ELSE @])

\* the jitter sleep ends and the task runs its first executeCheck
Wake(i) ==
    /\ i \in DOMAIN workers
    /\ TaskOf(i).at = "jitter"
    /\ enterExecuteCheck(i)
    /\ UNCHANGED <<cfgVars, envVars, schedVars, storeVars, taskVars, now,
                   dispatches, triggers, openedAfter, stopChan, stopper, callers, sweeping>>

\* checker.Execute and ProcessResult return; the task is back at its select
executeCheckReturns(i) ==
    /\ i \in DOMAIN workers
    /\ TaskOf(i).at = "probe"
    /\ Tasked(i, [TaskOf(i) EXCEPT !.at = "select"])
    /\ UNCHANGED <<cfgVars, envVars, schedVars, storeVars, taskVars, now,
                   dispatches, triggers, openedAfter, stopChan, stopper, callers, sweeping>>

\* select takes case <-sc.ticker.C: the ticker may have fired at any pass
SelectTick(i) ==
    /\ i \in DOMAIN workers
    /\ TaskOf(i).at = "select"
    /\ enterExecuteCheck(i)
    /\ UNCHANGED <<cfgVars, envVars, schedVars, storeVars, taskVars, now,
                   dispatches, triggers, openedAfter, stopChan, stopper, callers, sweeping>>

\* case <-sc.stop or case <-s.stopChan can proceed
StopReady(i) ==
    \/ workers[i].stop # "open"
    \/ stopChan = "closed"

\* select takes one of the two stop cases: the task returns, wg.Done runs
SelectStop(i) ==
    /\ i \in DOMAIN workers
    /\ TaskOf(i).at = "select"
    /\ StopReady(i)
    /\ Tasked(i, [TaskOf(i) EXCEPT !.at = "exited"])
    /\ UNCHANGED <<cfgVars, envVars, schedVars, storeVars, taskVars, now,
                   dispatches, triggers, openedAfter, stopChan, stopper, callers, sweeping>>

\* Stop, first line: close(s.stopChan); before is the number of tasks
\* started so far
StopBroadcast ==
    /\ stopper.pc = "idle"
    /\ stopChan' = Close(stopChan)
    /\ stopper' = [pc |-> "closing", before |-> Len(workers)]
    /\ UNCHANGED <<cfgVars, envVars, schedVars, storeVars, taskVars, now,
                   dispatches, triggers, openedAfter, running, callers, sweeping>>

\* Stop, under the lock: close(sc.stop) for every scheduledCheck in the map
StopCloseAll ==
    /\ stopper.pc = "closing"
    /\ workers' = [i \in DOMAIN workers |->
                      IF \E id \in DOMAIN checks : checks[id] = i
                      THEN [workers[i] EXCEPT !.stop = Close(@)]
                      ELSE workers[i]]
    /\ stopper' = [stopper EXCEPT !.pc = "waiting"]
    /\ UNCHANGED <<cfgVars, envVars, endpoints, checks, sweepers, call, storeVars,
                   taskVars, now, dispatches, triggers, openedAfter, stopChan,
                   running, callers, sweeping>>

\* a Stop that waits for nobody
Waited_Nobody == {}

\* the WaitGroup's counter: the started tasks that have not returned
Waited == {i \in DOMAIN workers : TaskOf(i).at # "exited"}

\* Stop, last lines: wg.Wait returns when the counter is zero
StopReturns ==
    /\ stopper.pc = "waiting"
    /\ Waited = {}
    /\ stopper' = [stopper EXCEPT !.pc = "returned"]
    /\ UNCHANGED <<cfgVars, envVars, schedVars, storeVars, taskVars, now,
                   dispatches, triggers, openedAfter, stopChan, running, callers, sweeping>>

\* SQLiteStorage.DeleteCheck called by a client of the store
DeleteCheck ==
    /\ \E id \in DOMAIN endpoints :
           endpoints' = [i \in DOMAIN endpoints \ {id} |-> endpoints[i]]
    /\ UNCHANGED <<cfgVars, envVars, lifeVars, checks, workers, sweepers, call,
                   storeVars, taskVars, now, dispatches, triggers, openedAfter>>

\* a new scheduler over a store that holds both endpoints, enabled
LifeInit ==
    /\ endpoints = [i \in EndpointIDs |-> Check(i, TRUE, DefaultIntervalSecs)]
    /\ checks = [i \in {} |-> 0]
    /\ workers = <<>>
    /\ sweepers = 0
    /\ call = NoCall
    /\ consecutiveFailures = DefaultThreshold
    /\ cooldownMinutes = 0
    /\ recoveryNotification = TRUE
    /\ retentionDays = DefaultRetentionDays
    /\ enabled = {}
    /\ EnvInit(FALSE)
    /\ NotStopped
    /\ StoreInit
    /\ TaskInit

runCheck(i) ==
    \/ Wake(i)
    \/ executeCheckReturns(i)
    \/ SelectTick(i)
    \/ SelectStop(i)

Stop ==
    \/ StopBroadcast
    \/ StopCloseAll
    \/ StopReturns

LifeNext ==
    \/ Start
    \/ RemoveCheck
    \/ DeleteCheck
    \/ Stop
    \/ \E i \in 1..MaxWorkers : runCheck(i)

LifeSpec == LifeInit /\ [][LifeNext]_vars

\* the scheduling the shutdown relies on: a sleeping task wakes up, a probe
\* returns within its timeout, Stop goes on to its next line, and a select
\* that is passed again and again with a stop case ready takes it in the end
LifeFairness ==
    /\ WF_vars(StopCloseAll)
    /\ WF_vars(StopReturns)
    /\ \A i \in 1..MaxWorkers :
           /\ WF_vars(Wake(i))
           /\ WF_vars(executeCheckReturns(i))
           /\ SF_vars(SelectStop(i))

LifeFairSpec == LifeSpec /\ LifeFairness

\* --------------------------------------------- clients calling concurrently
\* UpdateCheck takes the lock twice, in RemoveCheck and in scheduleCheck; the
\* calls of other clients run before, between and after the two
\* UpdateCheck, first half: s.RemoveCheck(check.ID)
UpdateCheckRemove(c) ==
    /\ callers[c].pc = "idle"
    /\ \E check \in CheckInputs :
           LET st == RemoveCheckIn(Sched, check.id)
           IN  /\ checks' = st.checks
               /\ workers' = st.workers
               /\ callers' = [callers EXCEPT ![c] = [pc |-> "removed", check |-> check]]
    /\ UNCHANGED <<cfgVars, envVars, endpoints, sweepers, call, storeVars, taskVars,
                   now, dispatches, triggers, openedAfter, stopChan, stopper,
                   running, sweeping>>

\* UpdateCheck, second half: scheduleCheck if the check is enabled, and return
UpdateCheckSchedule(c) ==
    /\ callers[c].pc = "removed"
    /\ LET check == callers[c].check
       IN  Called("UpdateCheck", check.id, check, Nil,
                  IF check.enabled THEN scheduleCheck(Sched, check) ELSE Sched)
    /\ callers' = [callers EXCEPT ![c] = NoUpdate]
    /\ UNCHANGED <<cfgVars, envVars, endpoints, sweepers, storeVars, taskVars, now,
                   dispatches, triggers, openedAfter, stopChan, stopper, running,
                   sweeping>>

ClientsNext ==
    \/ AddCheck
    \/ RemoveCheck
    \/ \E c \in Clients : UpdateCheckRemove(c)
    \/ \E c \in Clients : UpdateCheckSchedule(c)

ClientsSpec == LifeInit /\ [][ClientsNext]_vars

\* ------------------------------------------- the probe and its verdict alone
\* one Execute call: the first attempt and, if the test says so, the second
Execute ==
    /\ \E expectedStatus \in AllExpectedStatuses, retryDelay \in RetryDelays,
          first \in AttemptResponses, second \in AttemptResponses :
           LET made == IF ShouldRetry(first, expectedStatus, retryDelay)
                       THEN <<first, second>> ELSE <<first>>
           IN  exec' = [pc |-> "returned", expected |-> expectedStatus,
                        retry_delay |-> retryDelay, attempts |-> made,
                        out |-> made[Len(made)], response |-> NoResponse,
                        status |-> "", success |-> FALSE]
    /\ UNCHANGED <<cfgVars, storeFails, pool, stmts, lifeVars, schedVars, storeVars, taskVars, now,
                   dispatches, triggers, openedAfter>>

\* DetermineStatus and IsSuccess applied to a response, the one Execute
\* returned or any other
Classify ==
    /\ exec.pc = "returned"
    /\ \E response \in {exec.out} \cup AllResponses :
           exec' = [exec EXCEPT !.pc = "classified",
                                !.response = response,
                                !.status = DetermineStatus(response, exec.expected),
                                !.success = IsSuccess(response, exec.expected)]
    /\ UNCHANGED <<cfgVars, storeFails, pool, stmts, lifeVars, schedVars, storeVars, taskVars, now,
                   dispatches, triggers, openedAfter>>

ExecInit ==
    /\ consecutiveFailures = DefaultThreshold
    /\ cooldownMinutes = 0
    /\ recoveryNotification = TRUE
    /\ retentionDays = DefaultRetentionDays
    /\ enabled = {}
    /\ StoreInit /\ TaskInit /\ NotStartedInit
    /\ EnvInit(FALSE)
    /\ NotStopped

ExecNext ==
    \/ Execute
    \/ Classify

ExecSpec == ExecInit /\ [][ExecNext]_vars

\* ------------------------------------------------------- retention of results
\* check_results rows carry the time.Now() of their insertion
StampedResult(checkID, verdict) ==
    [check_id |-> checkID, status |-> verdict, checked_at |-> now]

\* the DELETE's WHERE clause taking the cutoff itself as old
Expired_Inclusive(row, olderThan) == row.checked_at <= olderThan

\* WHERE checked_at < ?
Expired(row, olderThan) == row.checked_at < olderThan

\* the rows the DELETE leaves, in the order they were inserted
Kept(rows, olderThan) == SelectSeq(rows, LAMBDA row : ~ Expired(row, olderThan))

\* SQLiteStorage.SaveResult called by any client of the store
InsertResult ==
    /\ Len(results) < MaxRows
    /\ \E verdict \in {"up", "down"} :
           results' = Append(results, StampedResult(CheckID, verdict))
    /\ UNCHANGED <<cfgVars, envVars, lifeVars, schedVars, incidents, alertLog, taskVars,
                   now, dispatches, triggers, openedAfter>>

\* the clock of the retention runs
Advance ==
    /\ now < MaxStamp
    /\ now' = now + 1
    /\ UNCHANGED <<cfgVars, envVars, lifeVars, schedVars, storeVars, taskVars, dispatches,
                   triggers, openedAfter>>

\* one statement: it deletes every expired row, or fails and deletes none;
\* deleted is the statement's count of affected rows
CleanupOldResults ==
    /\ \E olderThan \in 0..(MaxStamp + 1), err \in StoreErrors :
           LET kept == IF err = Nil THEN Kept(results, olderThan) ELSE results
           IN  /\ results' = kept
               /\ call' = [op |-> "CleanupOldResults", id |-> 0, check |-> NoCheck,
                           err |-> IF err = Nil THEN Nil ELSE "cleaning up old results",
                           cutoff |-> olderThan,
                           deleted |-> Len(results) - Len(kept)]
    /\ UNCHANGED <<cfgVars, envVars, lifeVars, endpoints, checks, workers, sweepers,
                   incidents, alertLog, taskVars, now, dispatches, triggers,
                   openedAfter>>

\* a store that holds no result yet, and may hold an incident, open or
\* closed, with or without a row of the alert log
CleanupInit ==
    /\ consecutiveFailures = DefaultThreshold
    /\ cooldownMinutes = 0
    /\ recoveryNotification = TRUE
    /\ retentionDays = DefaultRetentionDays
    /\ enabled = {"email"}
    /\ now = 0
    /\ results = <<>>
    /\ \E held \in {<<>>, <<NewIncident(CheckID)>>, <<Closed(NewIncident(CheckID), 0)>>} :
           /\ incidents = held
           /\ openedAfter = [i \in DOMAIN held |-> 0]
           /\ alertLog \in {<<>>} \cup {logAlert(i, {"email"}) : i \in DOMAIN held}
    /\ dispatches = <<>>
    /\ triggers = 0
    /\ TaskInit
    /\ InstalledInit
    /\ \E fails \in BOOLEAN : EnvInit(fails)
    /\ NotStopped

CleanupNext ==
    \/ Advance
    \/ InsertResult
    \/ CleanupOldResults

CleanupSpec == CleanupInit /\ [][CleanupNext]_vars

\* ------------------------------------------------------ the retention task
\* runCleanupJob of every task Start has started, step by step
\* a task that Start has just started: before its first sweep
NewSweeper == [at |-> "startup", sweeps |-> 0, cutoff |-> 0, failed |-> FALSE]

SweeperOf(k) == IF k \in DOMAIN sweeping THEN sweeping[k] ELSE NewSweeper

\* the runCleanupJob tasks that have not returned
AliveSweepers == {k \in 1..sweepers : SweeperOf(k).at # "exited"}

\* retentionDays as doCleanup reads it
RetentionOf(configured) ==
    IF configured < 1 THEN DefaultRetentionDays ELSE configured

\* time.Duration(days) * 24 * time.Hour, in days: the product wraps
DurationOfDays(days) ==
    ((days + DurationWrapDays \div 2) % DurationWrapDays) - DurationWrapDays \div 2

\* time.Now().Add(-d)
Cutoff == now - DurationOfDays(RetentionOf(retentionDays))

\* doCleanup: one CleanupOldResults, whose error is printed and dropped
doCleanup(k) ==
    \E err \in StoreErrors :
        /\ results' = IF err = Nil THEN Kept(results, Cutoff) ELSE results
        /\ sweeping' = [j \in DOMAIN sweeping \cup {k} |->
                           IF j = k
                           THEN [at |-> "select",
                                 sweeps |-> Min(MaxSweeps, SweeperOf(k).sweeps + 1),
                                 cutoff |-> Cutoff,
                                 failed |-> err # Nil]
                           ELSE sweeping[j]]

\* the sweep at startup
SweepStartup(k) ==
    /\ k \in 1..sweepers
    /\ SweeperOf(k).at = "startup"
    /\ doCleanup(k)
    /\ UNCHANGED <<cfgVars, envVars, schedVars, incidents, alertLog, taskVars, now,
                   dispatches, triggers, openedAfter, stopChan, stopper, running,
                   callers>>

\* select takes case <-ticker.C of the 24-hour ticker
SweepTick(k) ==
    /\ k \in 1..sweepers
    /\ SweeperOf(k).at = "select"
    /\ doCleanup(k)
    /\ UNCHANGED <<cfgVars, envVars, schedVars, incidents, alertLog, taskVars, now,
                   dispatches, triggers, openedAfter, stopChan, stopper, running,
                   callers>>

\* select takes case <-s.stopChan; nothing ever closes s.cleanupStop
SweeperStop(k) ==
    /\ k \in 1..sweepers
    /\ SweeperOf(k).at = "select"
    /\ stopChan = "closed"
    /\ sweeping' = [j \in DOMAIN sweeping \cup {k} |->
                       IF j = k THEN [SweeperOf(k) EXCEPT !.at = "exited"]
                       ELSE sweeping[j]]
    /\ UNCHANGED <<cfgVars, envVars, schedVars, storeVars, taskVars, now,
                   dispatches, triggers, openedAfter, stopChan, stopper, running,
                   callers>>

runCleanupJob(k) ==
    \/ SweepStartup(k)
    \/ SweepTick(k)
    \/ SweeperStop(k)

\* the configured retention: unset, negative, one day, and one beyond the
\* 106751 days a time.Duration can hold
RetentionInputs == {-1, 0, 1, 200000}

\* a new scheduler with any configured retention, over a store that holds
\* endpoint CheckID, disabled, and that may fail
RetentionInit ==
    /\ consecutiveFailures = DefaultThreshold
    /\ cooldownMinutes = 0
    /\ recoveryNotification = TRUE
    /\ retentionDays \in RetentionInputs
    /\ enabled = {}
    /\ StoreInit /\ TaskInit
    /\ endpoints = [i \in {CheckID} |-> Check(CheckID, FALSE, DefaultIntervalSecs)]
    /\ checks = [i \in {} |-> 0]
    /\ workers = <<>>
    /\ sweepers = 0
    /\ call = NoCall
    /\ \E fails \in BOOLEAN : EnvInit(fails)
    /\ NotStopped

RetentionNext ==
    \/ Start
    \/ Advance
    \/ InsertResult
    \/ Stop
    \/ \E k \in 1..MaxStarts : runCleanupJob(k)

RetentionSpec == RetentionInit /\ [][RetentionNext]_vars

\* ------------------------------------------------------------ ReloadChecks
\* ReloadChecks, under the lock: close(sc.stop) for every scheduledCheck in
\* the map, then a new, empty map
ReloadChecksClose(c) ==
    /\ callers[c].pc = "idle"
    /\ workers' = [i \in DOMAIN workers |->
                      IF \E id \in DOMAIN checks : checks[id] = i
                      THEN [workers[i] EXCEPT !.stop = Close(@)]
                      ELSE workers[i]]
    /\ checks' = [i \in {} |-> 0]
    /\ callers' = [callers EXCEPT ![c] = [pc |-> "reloading", check |-> NoCheck]]
    /\ UNCHANGED <<cfgVars, envVars, endpoints, sweepers, call, storeVars, taskVars,
                   now, dispatches, triggers, openedAfter, stopChan, stopper,
                   running, sweeping>>

\* ReloadChecks, after the lock: wg.Wait returns and Start runs, with its
\* scheduleCheck calls and its go s.runCleanupJob()
ReloadChecksStart(c) ==
    /\ callers[c].pc = "reloading"
    /\ Waited = {}
    /\ sweepers < MaxStarts + MaxReloads
    /\ \E err \in StoreErrors :
           IF err # Nil
           THEN /\ Called("ReloadChecks", 0, NoCheck, "loading checks", Sched)
                /\ sweepers' = sweepers
           ELSE /\ \E list \in ListEnabledChecks :
                       Called("ReloadChecks", 0, NoCheck, Nil, ScheduleAll(Sched, list))
                /\ sweepers' = sweepers + 1
    /\ callers' = [callers EXCEPT ![c] = NoUpdate]
    /\ UNCHANGED <<cfgVars, envVars, endpoints, storeVars, taskVars, now,
                   dispatches, triggers, openedAfter, stopChan, stopper, running,
                   sweeping>>

ReloadChecks(c) ==
    \/ ReloadChecksClose(c)
    \/ ReloadChecksStart(c)

\* a new scheduler over a store that holds endpoint CheckID, enabled
ReloadInit ==
    /\ consecutiveFailures = DefaultThreshold
    /\ cooldownMinutes = 0
    /\ recoveryNotification = TRUE
    /\ retentionDays = DefaultRetentionDays
    /\ enabled = {}
    /\ StoreInit /\ TaskInit /\ NotStartedInit
    /\ EnvInit(FALSE)
    /\ NotStopped

ReloadNext ==
    \/ Start
    \/ ReloadChecks(1)
    \/ Stop
    \/ \E i \in 1..MaxWorkers : runCheck(i)
    \/ \E k \in 1..(MaxStarts + MaxReloads) : runCleanupJob(k)

ReloadSpec == ReloadInit /\ [][ReloadNext]_vars

\* ------------------------------------------------ the probe with its retry
\* executeCheck and TriggerCheck with checker.Execute spelled out: the
\* attempts made go to exec, the response returned goes to ProcessResult
\* Execute returning its first attempt
Returned_First(made) == made[1]

\* return response: the variable holds the last attempt
Returned(made) == made[Len(made)]

\* the delays a checker is built with: none, and that of NewHTTPChecker
MachineRetryDelays == {0, DefaultRetryDelaySecs}

\* no task is between its probe and the end of ProcessResult
NoneInFlight == \A t \in Tasks : pc[t] = "idle"

ExecuteAndProcess(t) ==
    /\ NoneInFlight
    /\ Len(results) < MaxResults
    /\ triggers' = triggers + (IF t = "trigger" THEN 1 ELSE 0)
    /\ \E expectedStatus \in ExpectedStatuses, retryDelay \in MachineRetryDelays,
          first \in Responses, second \in Responses :
           LET made == IF ShouldRetry(first, expectedStatus, retryDelay)
                       THEN <<first, second>> ELSE <<first>>
           IN  /\ exec' = [NoExec EXCEPT !.pc = "returned",
                                         !.expected = expectedStatus,
                                         !.retry_delay = retryDelay,
                                         !.attempts = made,
                                         !.out = Returned(made)]
               /\ result' = [result EXCEPT ![t] = BuildResult(Returned(made),
                                                             expectedStatus)]
    /\ status' = [status EXCEPT ![t] = LatestStatus]
    /\ Goto(t, "SaveResult")
    /\ UNCHANGED <<cfgVars, storeFails, pool, stmts, lifeVars, schedVars, storeVars, incident,
                   now, dispatches, openedAfter>>

\* a tick of the worker, or a manual trigger, on the stored endpoint
ProbeNext ==
    \/ Tick
    \/ WorkerRunning(CheckID) /\ ExecuteAndProcess("worker")
    \/ CheckID \in DOMAIN endpoints /\ ExecuteAndProcess("trigger")
    \/ \E t \in Tasks : ProcessResult(t)

ProbeInit ==
    /\ consecutiveFailures \in {NewScheduler(c) : c \in 0..1}
    /\ cooldownMinutes = 0
    /\ recoveryNotification = TRUE
    /\ retentionDays = DefaultRetentionDays
    /\ enabled \in MachineChannels
    /\ StoreInit /\ TaskInit /\ InstalledInit
    /\ EnvInit(FALSE)
    /\ NotStopped

ProbeSpec == ProbeInit /\ [][ProbeNext]_vars

\* ------------------------------------------------------- the scheduler's lock
\* every call split at s.mu: a client is inside the section it has entered
\* until it leaves it, and reads or writes s.checks while it is there
\* the sections entered with s.mu.Lock()
ExclusiveSections == {"scheduleCheck", "RemoveCheck"}

\* the section entered with s.mu.RLock()
SharedSections == {"GetCheckCount"}

\* the statement of Start that reads len(s.checks), outside every section
UnlockedReads == {"Start"}

Writers == {c \in Clients : callers[c].pc \in ExclusiveSections}

Readers == {c \in Clients : callers[c].pc \in SharedSections}

\* Lock() returns when nobody holds the lock, RLock() when no writer does
CanLock == Writers = {} /\ Readers = {}

CanRLock == Writers = {}

Enter(c, section, check) ==
    /\ callers[c].pc = "idle"
    /\ callers' = [callers EXCEPT ![c] = [pc |-> section, check |-> check]]
    /\ UNCHANGED <<cfgVars, envVars, schedVars, storeVars, taskVars, now,
                   dispatches, triggers, openedAfter, stopChan, stopper, running,
                   sweeping>>

\* the client leaves its section or statement, the call returns
Leave(c) ==
    /\ callers' = [callers EXCEPT ![c] = NoUpdate]
    /\ UNCHANGED <<cfgVars, envVars, endpoints, storeVars, taskVars, now,
                   dispatches, triggers, openedAfter, stopChan, stopper, running,
                   sweeping>>

\* AddCheck: scheduleCheck takes the lock
LockedAddCheck(c) ==
    \/ /\ CanLock
       /\ \E check \in CheckInputs : Enter(c, "scheduleCheck", check)
    \/ /\ callers[c].pc = "scheduleCheck"
       /\ LET check == callers[c].check
          IN  Called("AddCheck", check.id, check, Nil, scheduleCheck(Sched, check))
       /\ sweepers' = sweepers
       /\ Leave(c)

\* RemoveCheck takes the lock
LockedRemoveCheck(c) ==
    \/ /\ CanLock
       /\ \E id \in EndpointIDs : Enter(c, "RemoveCheck", Check(id, FALSE, 0))
    \/ /\ callers[c].pc = "RemoveCheck"
       /\ LET id == callers[c].check.id
          IN  Called("RemoveCheck", id, NoCheck, Nil, RemoveCheckIn(Sched, id))
       /\ sweepers' = sweepers
       /\ Leave(c)

\* GetCheckCount takes the lock shared and returns len(s.checks)
LockedGetCheckCount(c) ==
    \/ /\ CanRLock
       /\ Enter(c, "GetCheckCount", NoCheck)
    \/ /\ callers[c].pc = "GetCheckCount"
       /\ Called("GetCheckCount", GetCheckCount, NoCheck, Nil, Sched)
       /\ sweepers' = sweepers
       /\ Leave(c)

\* Start: its scheduleCheck calls, each under the lock, then the retention
\* task, then len(s.checks) read for the message without the lock
UnlockedStart(c) ==
    \/ /\ CanLock
       /\ callers[c].pc = "idle"
       /\ sweepers < MaxStarts
       /\ \E list \in ListEnabledChecks :
              /\ checks' = ScheduleAll(Sched, list).checks
              /\ workers' = ScheduleAll(Sched, list).workers
       /\ sweepers' = sweepers + 1
       /\ callers' = [callers EXCEPT ![c] = [pc |-> "Start", check |-> NoCheck]]
       /\ UNCHANGED <<cfgVars, envVars, endpoints, call, storeVars, taskVars, now,
                      dispatches, triggers, openedAfter, stopChan, stopper,
                      running, sweeping>>
    \/ /\ callers[c].pc = "Start"
       /\ Called("Start", 0, NoCheck, Nil, Sched)
       /\ sweepers' = sweepers
       /\ Leave(c)

LockNext ==
    \E c \in Clients :
        \/ LockedAddCheck(c)
        \/ LockedRemoveCheck(c)
        \/ LockedGetCheckCount(c)
        \/ UnlockedStart(c)

LockSpec == ReloadInit /\ [][LockNext]_vars

\* ------------------------------------------------------ the incident table
\* CreateIncident, GetIncident and CloseIncident of the store, called with the
\* clock as ProcessResult does and with any end time as the store's API
\* allows; the clock counts fractions of a second
Instants == 0..MaxInstant

\* int() of a float rounding to the nearest integer
Seconds_Rounded(d) ==
    IF d >= 0 THEN (2 * d + SubSecond) \div (2 * SubSecond)
    ELSE - (((2 * (-d)) + SubSecond) \div (2 * SubSecond))

\* int(d.Seconds()): the conversion drops the fraction, towards zero
Seconds(d) ==
    IF d >= 0 THEN d \div SubSecond ELSE - ((-d) \div SubSecond)

\* GetIncident: the row with that id, joined with its endpoint; 0 for none
GetIncident(id) ==
    IF id \in DOMAIN incidents /\ incidents[id].check_id \in DOMAIN endpoints
    THEN id ELSE 0

\* the UPDATE of CloseIncident
ClosedAt(row, endedAt) ==
    [row EXCEPT !.ended_at = <<endedAt>>,
                !.duration_seconds = Seconds(endedAt - row.started_at)]

IncidentCall(op, id, endedAt, err) ==
    [op |-> op, id |-> id, check |-> NoCheck, err |-> err, ended_at |-> endedAt]

\* store.CloseIncident(id, endedAt)
StorageCloseIncident(op, id, endedAt) ==
    /\ \E readErr \in StoreErrors, writeErr \in StoreErrors :
           IF readErr # Nil
           THEN /\ incidents' = incidents
                /\ call' = IncidentCall(op, id, endedAt, readErr)
           ELSE IF GetIncident(id) = 0
           THEN /\ incidents' = incidents
                /\ call' = IncidentCall(op, id, endedAt, "incident not found")
           ELSE IF writeErr # Nil
           THEN /\ incidents' = incidents
                /\ call' = IncidentCall(op, id, endedAt, "closing incident")
           ELSE /\ incidents' = [incidents EXCEPT ![id] = ClosedAt(@, endedAt)]
                /\ call' = IncidentCall(op, id, endedAt, Nil)
    /\ UNCHANGED <<cfgVars, envVars, lifeVars, endpoints, checks, workers, sweepers,
                   results, alertLog, taskVars, now, dispatches, triggers,
                   openedAfter>>

\* a caller of the store closing any id at any time
CloseIncidentCalled ==
    \E id \in 1..(MaxIncidents + 1), endedAt \in Instants :
        StorageCloseIncident("CloseIncident", id, endedAt)

\* the down branch of ProcessResult: the incident starts at time.Now()
OpenNow ==
    /\ Len(incidents) < MaxIncidents
    /\ ActiveIncidents = {}
    /\ \E err \in StoreErrors :
           IF err # Nil
           THEN /\ incidents' = incidents
                /\ call' = IncidentCall("down", 0, now, "creating incident")
           ELSE /\ incidents' = Append(incidents, NewIncident(CheckID))
                /\ call' = IncidentCall("down", Len(incidents) + 1, now, Nil)
    /\ UNCHANGED <<cfgVars, envVars, lifeVars, endpoints, checks, workers, sweepers,
                   results, alertLog, taskVars, now, dispatches, triggers,
                   openedAfter>>

\* the recovery branch of ProcessResult: the active incident ends at
\* time.Now()
CloseNow ==
    \E i \in ActiveIncidents : StorageCloseIncident("recovery", i, now)

\* the clock of the incident runs
Elapse ==
    /\ now < MaxInstant
    /\ now' = now + 1
    /\ UNCHANGED <<cfgVars, envVars, lifeVars, schedVars, storeVars, taskVars, dispatches,
                   triggers, openedAfter>>

IncidentInit ==
    /\ consecutiveFailures = DefaultThreshold
    /\ cooldownMinutes = 0
    /\ recoveryNotification = TRUE
    /\ retentionDays = DefaultRetentionDays
    /\ enabled = {}
    /\ StoreInit /\ TaskInit /\ NotStartedInit
    /\ \E fails \in BOOLEAN : EnvInit(fails)
    /\ NotStopped

IncidentNext ==
    \/ Elapse
    \/ OpenNow
    \/ CloseNow
    \/ CloseIncidentCalled

IncidentSpec == IncidentInit /\ [][IncidentNext]_vars

\* ------------------------------------------------- the tables and the pool
\* the store's statements as database/sql runs them: each takes a free
\* connection of the pool, or a new one when none is free, and the foreign
\* keys of the schema are enforced by a connection only if PRAGMA
\* foreign_keys=ON ran on it
FreeConns == {k \in DOMAIN pool : pool[k].user = Nil}

\* the session starts a statement on a connection
Begin(s, stmt, id) ==
    /\ stmts[s].stmt = Nil
    /\ IF FreeConns # {}
       THEN \E k \in FreeConns :
               /\ pool' = [pool EXCEPT ![k].user = s]
               /\ stmts' = [stmts EXCEPT ![s].stmt = stmt, ![s].conn = k,
                                         ![s].check = id]
       ELSE /\ Len(pool) < MaxConns
            /\ pool' = Append(pool, [foreign_keys |-> NewConnForeignKeys, user |-> s])
            /\ stmts' = [stmts EXCEPT ![s].stmt = stmt, ![s].conn = Len(pool) + 1,
                                      ![s].check = id]
    /\ UNCHANGED <<cfgVars, storeFails, exec, lifeVars, schedVars, storeVars, taskVars,
                   now, dispatches, triggers, openedAfter>>

\* the statement is over: the connection goes back to the pool
Released(s, at, incidentID) ==
    /\ pool' = [pool EXCEPT ![stmts[s].conn].user = Nil]
    /\ stmts' = [stmts EXCEPT ![s] = IF at = "idle" THEN NoStatement
                                     ELSE [@ EXCEPT !.at = at, !.stmt = Nil, !.conn = 0,
                                                    !.incident = incidentID]]

\* the session's connection enforces the schema's FOREIGN KEY clauses
Enforced(s) == pool[stmts[s].conn].foreign_keys

\* a row removed from incidents: AUTOINCREMENT never hands its id out again
DeletedIncident ==
    [check_id |-> 0, started_at |-> 0, ended_at |-> <<>>, duration_seconds |-> 0]

StoredIncidents == {i \in DOMAIN incidents : incidents[i] # DeletedIncident}

\* ON DELETE CASCADE of check_results, incidents and alert_log
CascadeResults(id) == SelectSeq(results, LAMBDA row : row.check_id # id)

CascadeIncidents(id) ==
    [i \in DOMAIN incidents |->
        IF incidents[i].check_id = id THEN DeletedIncident ELSE incidents[i]]

CascadeAlerts(id) ==
    SelectSeq(alertLog, LAMBDA row :
        ~ (/\ row.incident_id \in DOMAIN incidents
           /\ incidents[row.incident_id].check_id = id))

\* an INSERT whose parent row is missing fails where foreign keys are enforced
Rejected(s, parentExists) == Enforced(s) /\ ~ parentExists

\* HandleDeleteCheck: DELETE FROM checks WHERE id = ?
DeleteCheckBegin ==
    \E id \in DOMAIN endpoints : Begin("handler", "DeleteCheck", id)

DeleteCheckRun ==
    LET id == stmts["handler"].check
    IN  /\ stmts["handler"].stmt = "DeleteCheck"
        /\ endpoints' = [i \in DOMAIN endpoints \ {id} |-> endpoints[i]]
        /\ IF Enforced("handler")
           THEN /\ results' = CascadeResults(id)
                /\ incidents' = CascadeIncidents(id)
                /\ alertLog' = CascadeAlerts(id)
           ELSE UNCHANGED storeVars
        /\ Released("handler", "idle", 0)
        /\ UNCHANGED <<cfgVars, storeFails, exec, lifeVars, checks, workers, sweepers,
                       call, taskVars, now, dispatches, triggers, openedAfter>>

\* executeCheck of a worker, statement by statement: GetCheck, then the
\* probe, then SaveResult, CreateIncident and LogAlert of a down verdict
WorkerBegin ==
    LET w == stmts["worker"]
    IN  \/ /\ w.at = "idle"
           /\ Len(results) < MaxRows
           /\ \E id \in EndpointIDs : Begin("worker", "GetCheck", id)
        \/ /\ w.at = "probing"
           /\ Begin("worker", "SaveResult", w.check)
        \/ /\ w.at = "saved"
           /\ Len(incidents) < MaxIncidents
           /\ Begin("worker", "CreateIncident", w.check)
        \/ /\ w.at = "opened"
           /\ Begin("worker", "LogAlert", w.check)

GetCheckRun ==
    /\ stmts["worker"].stmt = "GetCheck"
    /\ Released("worker",
                IF stmts["worker"].check \in DOMAIN endpoints THEN "probing" ELSE "idle",
                0)
    /\ UNCHANGED <<cfgVars, storeFails, exec, lifeVars, schedVars, storeVars, taskVars,
                   now, dispatches, triggers, openedAfter>>

SaveResultRun ==
    LET id == stmts["worker"].check
    IN  /\ stmts["worker"].stmt = "SaveResult"
        /\ IF Rejected("worker", id \in DOMAIN endpoints)
           THEN results' = results /\ Released("worker", "idle", 0)
           ELSE /\ results' = Append(results, [check_id |-> id, status |-> "down"])
                /\ Released("worker", "saved", 0)
        /\ UNCHANGED <<cfgVars, storeFails, exec, lifeVars, schedVars, incidents,
                       alertLog, taskVars, now, dispatches, triggers, openedAfter>>

\* the worker found no incident to open: ProcessResult returns
SavedReturn ==
    /\ stmts["worker"].at = "saved" /\ stmts["worker"].stmt = Nil
    /\ stmts' = [stmts EXCEPT !["worker"] = NoStatement]
    /\ UNCHANGED <<cfgVars, storeFails, exec, pool, lifeVars, schedVars, storeVars,
                   taskVars, now, dispatches, triggers, openedAfter>>

CreateIncidentRun ==
    LET id == stmts["worker"].check
    IN  /\ stmts["worker"].stmt = "CreateIncident"
        /\ IF Rejected("worker", id \in DOMAIN endpoints)
           THEN incidents' = incidents /\ Released("worker", "idle", 0)
           ELSE /\ incidents' = Append(incidents, NewIncident(id))
                /\ Released("worker", "opened", Len(incidents) + 1)
        /\ UNCHANGED <<cfgVars, storeFails, exec, lifeVars, schedVars, results,
                       alertLog, taskVars, now, dispatches, triggers, openedAfter>>

LogAlertRun ==
    LET i == stmts["worker"].incident
    IN  /\ stmts["worker"].stmt = "LogAlert"
        /\ IF Rejected("worker", i \in StoredIncidents)
           THEN alertLog' = alertLog
           ELSE alertLog' = Append(alertLog,
                                   [incident_id |-> i, channel |-> "email",
                                    sent_at |-> now, success |-> TRUE])
        /\ Released("worker", "idle", 0)
        /\ UNCHANGED <<cfgVars, storeFails, exec, lifeVars, schedVars, results,
                       incidents, taskVars, now, dispatches, triggers, openedAfter>>

WorkerRun ==
    \/ GetCheckRun
    \/ SaveResultRun
    \/ SavedReturn
    \/ CreateIncidentRun
    \/ LogAlertRun

TablesInit ==
    /\ consecutiveFailures = NewScheduler(1)
    /\ cooldownMinutes = 0
    /\ recoveryNotification = TRUE
    /\ retentionDays = DefaultRetentionDays
    /\ enabled = {"email"}
    /\ StoreInit /\ TaskInit
    /\ endpoints = [i \in EndpointIDs |-> Check(i, TRUE, DefaultIntervalSecs)]
    /\ checks = [i \in {} |-> 0]
    /\ workers = <<>>
    /\ sweepers = 0
    /\ call = NoCall
    /\ EnvInit(FALSE)
    /\ NotStopped

TablesNext ==
    \/ WorkerBegin
    \/ WorkerRun
    \/ DeleteCheckBegin
    \/ DeleteCheckRun

TablesSpec == TablesInit /\ [][TablesNext]_vars

\* ================================================================ claims
OpenIncidents == {i \in DOMAIN incidents : incidents[i].ended_at = <<>>}

AllIdle == \A t \in Tasks : pc[t] = "idle"

\* the newest n stored results exist and are all down
LastDown(n) ==
    /\ Len(results) >= n
    /\ \A k \in 1..n : results[Len(results) - k + 1].status = "down"

DownDispatches == {k \in DOMAIN dispatches : dispatches[k].type = "down"}

\* C1: with the worker alone processing the verdicts one after the other, at
\* most one incident of the endpoint has a null ended_at in every state, for
\* every verdict sequence and every threshold.
C1_AtMostOneOpen == Cardinality(OpenIncidents) <= 1

\* a second incident is open after the first one was closed
C1_Witness ==
    /\ Len(incidents) = 2
    /\ incidents[1].ended_at # <<>>
    /\ incidents[2].ended_at = <<>>
    /\ AllIdle

\* C2: also with a manual trigger running beside the worker's tick, no two
\* incidents of the endpoint are open at the same instant.
C2_NoTwoOpenIncidents ==
    \A i, j \in DOMAIN incidents :
        (incidents[i].ended_at = <<>> /\ incidents[j].ended_at = <<>>) => i = j

\* C3: whenever an incident is created, at that moment the endpoint has at
\* least N stored results, its N newest stored results are all down, and it
\* has no open incident.
C3_GateAtCreation ==
    /\ LastDown(consecutiveFailures)
    /\ OpenIncidents = {}

C3_CreatedOnlyWhenGated ==
    [][Len(incidents') > Len(incidents) => C3_GateAtCreation]_vars

\* C4: when the worker has processed, in order, N consecutive down verdicts
\* that follow an up verdict, an incident of the endpoint is open.
C4_OpenAfterNDowns ==
    ( /\ pc["worker"] = "idle"
      /\ Len(results) > consecutiveFailures
      /\ results[Len(results) - consecutiveFailures].status = "up"
      /\ LastDown(consecutiveFailures) )
    => OpenIncidents # {}

\* C5: a fresh endpoint monitored with threshold 2 whose ten probes were all
\* down has exactly one incident, which is open, and exactly one DOWN
\* dispatch was made.
C5_SustainedOutage ==
    ( /\ consecutiveFailures = 2
      /\ pc["worker"] = "idle"
      /\ Len(results) = 10
      /\ AllDown(results) )
    => ( /\ Len(incidents) = 1
         /\ Cardinality(OpenIncidents) = 1
         /\ Cardinality(DownDispatches) = 1 )

\* C6: once every stored verdict has been processed, an incident after whose
\* creation an up verdict was stored is closed; and an incident whose ended_at
\* is set is never written again (later verdicts change no closed incident).
C6_ClosedByFirstUp ==
    AllIdle =>
        \A i \in DOMAIN incidents :
            (\E k \in (openedAfter[i] + 1)..Len(results) : results[k].status = "up")
                => incidents[i].ended_at # <<>>

C6_EndedAtWrittenOnce ==
    \A i \in DOMAIN incidents :
        incidents[i].ended_at # <<>> => incidents'[i] = incidents[i]

C6_RecoveryClosesOnce ==
    /\ []C6_ClosedByFirstUp
    /\ [][C6_EndedAtWrittenOnce]_vars

\* C7: a ProcessResult call whose previous status is pending or empty stores
\* its result and returns: the step that stores the result leaves incidents,
\* the alert log and the dispatch history unchanged and ends the call, and no
\* call with such a previous status is ever past that step.
C7_PendingStep(t) ==
    ( /\ pc[t] = "SaveResult"
      /\ pc'[t] # "SaveResult"
      /\ status[t] \in {"", "pending"} )
    => ( /\ results' = Append(results, result[t])
         /\ incidents' = incidents
         /\ alertLog' = alertLog
         /\ dispatches' = dispatches
         /\ pc'[t] = "idle" )

C7_PendingOnlySaves ==
    \A t \in Tasks : pc[t] \notin {"idle", "SaveResult"} => status[t] \in {"up", "down"}

C7_FirstCheckOnlyStores ==
    /\ []C7_PendingOnlySaves
    /\ [][\A t \in Tasks : C7_PendingStep(t)]_vars

\* the first verdict of the endpoint was down and has been processed
C7_Witness ==
    /\ Len(results) = 1
    /\ results[1].status = "down"
    /\ AllIdle
    /\ incidents = <<>>
    /\ dispatches = <<>>

\* C8: with recovery_notification enabled, every recovery dispatch invokes
\* every enabled sender, whatever the time since the DOWN alert, so each
\* incident has one alert_log row per enabled channel and dispatch; and the
\* verdict that closed the incident opened none.
C8_RecoveryDelivered ==
    recoveryNotification =>
        /\ \A k \in DOMAIN dispatches :
               dispatches[k].type = "recovery" => dispatches[k].invoked = enabled
        /\ \A i \in DOMAIN incidents :
               Cardinality({k \in DOMAIN alertLog : alertLog[k].incident_id = i})
                 = Cardinality(enabled)
                     * Cardinality({k \in DOMAIN dispatches : dispatches[k].incident_id = i})
        /\ (AllIdle /\ LatestStatus = "up") => OpenIncidents = {}

\* C9: of two successive SendDownAlert calls on the same incident less than
\* cooldown_minutes apart, the second invokes no sender when the first
\* recorded a successful delivery, and invokes every enabled sender when the
\* first recorded only failures.
C9_Pair(j, k) ==
    /\ dispatches[j].type = "down"
    /\ dispatches[k].type = "down"
    /\ dispatches[j].incident_id = dispatches[k].incident_id
    /\ incidents[dispatches[k].incident_id].ended_at = <<>>
    /\ dispatches[k].at - dispatches[j].at < cooldownMinutes

C9_CooldownSuppresses ==
    \A k \in DOMAIN dispatches :
        (k > 1 /\ C9_Pair(k - 1, k)) =>
            /\ dispatches[k - 1].ok # {} => dispatches[k].invoked = {}
            /\ (dispatches[k - 1].invoked # {} /\ dispatches[k - 1].ok = {})
                   => dispatches[k].invoked = enabled

\* C10: no two successful alert_log rows of one incident on one channel are
\* less than cooldown_minutes apart.
C10_CooldownPerChannel ==
    \A a, b \in DOMAIN alertLog :
        ( /\ a < b
          /\ alertLog[a].incident_id = alertLog[b].incident_id
          /\ alertLog[a].channel = alertLog[b].channel
          /\ alertLog[a].success
          /\ alertLog[b].success )
        => alertLog[b].sent_at - alertLog[a].sent_at >= cooldownMinutes

\* the dispatches of one type made for incident i
DispatchesOf(type, i) ==
    {k \in DOMAIN dispatches :
        dispatches[k].type = type /\ dispatches[k].incident_id = i}

\* every verdict stored after incident i was created is down, and there are
\* at least n of them
StaysDown(i, n) ==
    /\ Len(results) >= openedAfter[i] + n
    /\ \A k \in (openedAfter[i] + 1)..Len(results) : results[k].status = "down"

\* C11: an open incident whose DOWN deliveries all failed, and after whose
\* creation the worker has processed two further down verdicts, has had its
\* DOWN alert dispatched again.
C11_FailedDownRetried ==
    \A i \in DOMAIN incidents :
        ( /\ pc["worker"] = "idle"
          /\ incidents[i].ended_at = <<>>
          /\ DispatchesOf("down", i) # {}
          /\ \A k \in DispatchesOf("down", i) :
                 dispatches[k].invoked # {} /\ dispatches[k].ok = {}
          /\ StaysDown(i, 2) )
        => Cardinality(DispatchesOf("down", i)) >= 2

\* C12: with the worker alone, at most one SendDownAlert call and at most one
\* SendRecoveryAlert call is made per incident; and the step that stores a
\* down verdict whose previous status is down ends the call without touching
\* incidents, alert log or dispatch history.
C12_OncePerIncident ==
    \A i \in DOMAIN incidents :
        /\ Cardinality(DispatchesOf("down", i)) <= 1
        /\ Cardinality(DispatchesOf("recovery", i)) <= 1

C12_DownWhileDownStep ==
    ( /\ pc["worker"] = "SaveResult"
      /\ pc'["worker"] # "SaveResult"
      /\ status["worker"] = "down"
      /\ result["worker"].status = "down" )
    => ( /\ pc'["worker"] = "idle"
         /\ incidents' = incidents
         /\ alertLog' = alertLog
         /\ dispatches' = dispatches )

C12_NoDuplicateAlerts ==
    /\ []C12_OncePerIncident
    /\ [][C12_DownWhileDownStep]_vars

\* an outage of two down verdicts that opened one incident, alerted once and
\* recovered once
C12_Witness ==
    /\ AllIdle
    /\ Len(results) = 4
    /\ results[2].status = "down"
    /\ results[3].status = "down"
    /\ Len(incidents) = 1
    /\ Cardinality(DispatchesOf("down", 1)) = 1
    /\ Cardinality(DispatchesOf("recovery", 1)) = 1

\* position of a channel in the order the senders are tried
ChannelPos(c) == CHOOSE k \in 1..Len(ChannelOrder) : ChannelOrder[k] = c

\* the rows appended to the alert log by the step
NewRows == SubSeq(alertLog', Len(alertLog) + 1, Len(alertLog'))

\* C13: a Manager call that reaches the senders (cooldown consulted and not
\* suppressing) invokes every enabled sender; it appends one alert_log row per
\* enabled channel, in the order email, slack, discord, each with the outcome
\* of that channel's send, also after a failed one; it returns nil when no
\* send failed (or none is enabled) and otherwise the error of the last
\* channel in that order whose send failed.
C13_DispatchStep ==
    LET d == dispatches'[Len(dispatches')]
    IN  ( /\ Len(dispatches') = Len(dispatches) + 1
          /\ d.cooldown
          /\ shouldSendAlert(d.incident_id) )
        => ( /\ d.invoked = enabled
             /\ Len(alertLog') = Len(alertLog) + Cardinality(enabled)
             /\ \A k \in DOMAIN NewRows :
                    /\ NewRows[k].channel \in enabled
                    /\ NewRows[k].incident_id = d.incident_id
                    /\ NewRows[k].success = (NewRows[k].channel \in d.ok)
                    /\ \A j \in 1..(k - 1) :
                           ChannelPos(NewRows[j].channel) < ChannelPos(NewRows[k].channel)
             /\ (d.err = Nil) = (d.ok = enabled)
             /\ d.err # Nil =>
                    /\ d.err \in enabled \ d.ok
                    /\ \A c \in enabled \ d.ok : ChannelPos(c) <= ChannelPos(d.err) )

C13_EverySenderInvoked == [][C13_DispatchStep]_vars

\* all three channels enabled: email failed, slack delivered, discord failed
C13_Witness ==
    /\ enabled = Channels
    /\ Len(dispatches) = 1
    /\ dispatches[1].ok = {"slack"}
    /\ dispatches[1].err = "discord"
    /\ Len(alertLog) = 3
    /\ alertLog[1].channel = "email" /\ ~ alertLog[1].success
    /\ alertLog[2].channel = "slack" /\ alertLog[2].success

\* C14: with recovery_notification disabled, a SendRecoveryAlert call consults
\* no cooldown (reads no alert_log row), invokes no sender, writes no row and
\* returns nil; the incident it was called for is closed before the call and
\* stays closed.
C14_RecoveryStep ==
    LET d == dispatches'[Len(dispatches')]
    IN  ( /\ ~ recoveryNotification
          /\ Len(dispatches') = Len(dispatches) + 1
          /\ d.type = "recovery" )
        => ( /\ ~ d.cooldown
             /\ d.invoked = {}
             /\ d.err = Nil
             /\ alertLog' = alertLog
             /\ incidents[d.incident_id].ended_at # <<>>
             /\ incidents' = incidents )

C14_DisabledRecoveryIsNoOp == [][C14_RecoveryStep]_vars

\* a recovery processed with the notification disabled and a channel enabled
C14_Witness ==
    /\ ~ recoveryNotification
    /\ enabled # {}
    /\ AllIdle
    /\ Len(incidents) = 1
    /\ incidents[1].ended_at # <<>>
    /\ DispatchesOf("recovery", 1) # {}

\* C15: when the Manager returns an error to ProcessResult, ProcessResult
\* returns nil and its caller goes on; the incident the alert is about is not
\* changed by the failure (open for a DOWN alert, closed for a RECOVERY
\* alert); and every channel whose send failed has a new alert_log row with
\* success = false.
C15_AlertFailureStep ==
    LET d == dispatches'[Len(dispatches')]
    IN  ( /\ pc["worker"] \in {"SendDownAlert", "SendRecoveryAlert"}
          /\ Len(dispatches') = Len(dispatches) + 1
          /\ d.err # Nil )
        => ( /\ returned'["worker"] = Nil
             /\ pc'["worker"] = "idle"
             /\ incidents' = incidents
             /\ d.type = "down" => incidents'[d.incident_id].ended_at = <<>>
             /\ d.type = "recovery" => incidents'[d.incident_id].ended_at # <<>>
             /\ \A c \in d.invoked \ d.ok :
                    \E k \in DOMAIN NewRows :
                        /\ NewRows[k].channel = c
                        /\ NewRows[k].incident_id = d.incident_id
                        /\ ~ NewRows[k].success )

C15_AlertFailureDoesNotBlock == [][C15_AlertFailureStep]_vars

\* the DOWN alert and the RECOVERY alert of one incident both failed
C15_Witness ==
    /\ AllIdle
    /\ Len(dispatches) = 2
    /\ dispatches[1].type = "down" /\ dispatches[1].err # Nil
    /\ dispatches[2].type = "recovery" /\ dispatches[2].err # Nil
    /\ incidents[1].ended_at # <<>>
    /\ returned["worker"] = Nil

\* C16: when store.SaveResult fails, the step ends ProcessResult with an
\* error and leaves results, incidents, the alert log and the dispatch history
\* unchanged: nothing more is done for that verdict.
C16_SaveFailedStep ==
    ( /\ pc["worker"] = "SaveResult"
      /\ pc'["worker"] # "SaveResult"
      /\ results' = results )
    => ( /\ returned'["worker"] = "saving result"
         /\ pc'["worker"] = "idle"
         /\ incidents' = incidents
         /\ alertLog' = alertLog
         /\ dispatches' = dispatches )

C16_SaveFailureAborts == [][C16_SaveFailedStep]_vars

\* a down verdict that followed a stored up verdict could not be stored
C16_Witness ==
    /\ returned["worker"] = "saving result"
    /\ pc["worker"] = "idle"
    /\ consecutiveFailures = 1
    /\ Len(results) = 1
    /\ results[1].status = "up"
    /\ incidents = <<>>

\* C17: a ProcessResult call of the worker that returns an error puts the
\* worker back into its loop and changes neither the worker map nor the
\* worker's task; a worker whose last call returned an error is still
\* installed with its stop channel open, and its next tick is able to run a
\* probe.
InsideProcessResult ==
    {"SaveResult", "ShouldAlert", "ShouldAlertIncident", "CreateIncident",
     "SendDownAlert", "GetActiveIncident", "CloseIncident", "SendRecoveryAlert"}

C17_ErrorStep ==
    ( /\ pc["worker"] \in InsideProcessResult
      /\ pc'["worker"] \notin InsideProcessResult
      /\ returned'["worker"] # Nil )
    => ( /\ pc'["worker"] = "idle"
         /\ checks' = checks
         /\ workers' = workers )

C17_StillInstalled ==
    returned["worker"] # Nil =>
        /\ CheckID \in DOMAIN checks
        /\ workers[checks[CheckID]].stop = "open"
        /\ pc["worker"] \in InsideProcessResult \cup {"idle"}

C17_TicksAgain ==
    ( /\ returned["worker"] # Nil
      /\ pc["worker"] = "idle"
      /\ Len(results) < ProbeBudget )
    => ENABLED executeCheck

C17_ErrorKeepsWorker ==
    /\ []C17_StillInstalled
    /\ []C17_TicksAgain
    /\ [][C17_ErrorStep]_vars

\* the worker has started a new probe after CreateIncident failed
C17_Witness ==
    /\ returned["worker"] = "creating incident"
    /\ pc["worker"] = "SaveResult"
    /\ incidents = <<>>

\* the tasks of endpoint id whose stop channel is open
OpenWorkers(ws, id) ==
    {w \in DOMAIN ws : ws[w].check.id = id /\ ws[w].stop = "open"}

\* C18: an AddCheck call for an id that already has a worker record leaves
\* the worker map, the count, every scheduledCheck (so the installed worker's
\* snapshot and ticker) and the number of tasks started unchanged, and
\* returns nil.
C18_AddExistingStep ==
    (call'.op = "AddCheck" /\ call'.id \in DOMAIN checks)
    => ( /\ checks' = checks
         /\ workers' = workers
         /\ Cardinality(DOMAIN checks') = Cardinality(DOMAIN checks)
         /\ call'.err = Nil )

C18_AddIsIdempotent == [][C18_AddExistingStep]_vars

\* AddCheck of endpoint 1 with another interval after it was installed: the
\* first snapshot is still the one installed
C18_Witness ==
    /\ call.op = "AddCheck"
    /\ call.check = Check(1, TRUE, 0)
    /\ DOMAIN checks = {1}
    /\ workers = <<ScheduledCheck(Check(1, TRUE, 30))>>

\* C19: an UpdateCheck call with enabled = false leaves no worker record for
\* the id and lowers the count by one exactly when a record existed; an
\* UpdateCheck call with enabled = true leaves exactly one record for the
\* id, made from the check passed, with exactly one running task for it.
C19_UpdateStep ==
    LET id == call'.id
    IN  call'.op = "UpdateCheck" =>
            IF call'.check.enabled
            THEN /\ id \in DOMAIN checks'
                 /\ workers'[checks'[id]].check = call'.check
                 /\ OpenWorkers(workers', id) = {checks'[id]}
            ELSE /\ id \notin DOMAIN checks'
                 /\ OpenWorkers(workers', id) = {}
                 /\ Cardinality(DOMAIN checks') =
                        Cardinality(DOMAIN checks)
                          - (IF id \in DOMAIN checks THEN 1 ELSE 0)

C19_UpdateTogglesWorker == [][C19_UpdateStep]_vars

\* endpoint 1 was installed, disabled by an update and enabled again
C19_Witness ==
    /\ call.op = "UpdateCheck"
    /\ call.check.enabled
    /\ call.id = 1
    /\ Len(workers) = 2
    /\ workers[1].check.id = 1 /\ workers[1].stop = "closed"
    /\ workers[2].check.id = 1 /\ workers[2].stop = "open"
    /\ DOMAIN checks = {1}
    /\ checks[1] = 2

\* C20: a Start call that returns nil on a scheduler without workers leaves
\* one worker record, with one running task, for each endpoint the store
\* lists as enabled and none for any other endpoint, so the count is the
\* number of enabled endpoints; it starts one retention task.
C20_StartStep ==
    (call'.op = "Start" /\ call'.err = Nil /\ DOMAIN checks = {} /\ workers = <<>>)
    => ( /\ DOMAIN checks' = {i \in DOMAIN endpoints : endpoints[i].enabled}
         /\ Cardinality(DOMAIN checks') =
                Cardinality({i \in DOMAIN endpoints : endpoints[i].enabled})
         /\ Len(workers') = Cardinality(DOMAIN checks')
         /\ \A i \in DOMAIN checks' :
                /\ workers'[checks'[i]].check = endpoints[i]
                /\ OpenWorkers(workers', i) = {checks'[i]}
         /\ sweepers' = sweepers + 1 )

C20_StartInstallsEnabled == [][C20_StartStep]_vars

\* the store lists endpoint 1 enabled and endpoint 2 disabled
C20_Witness ==
    /\ call.op = "Start"
    /\ DOMAIN endpoints = {1, 2}
    /\ endpoints[1].enabled
    /\ ~ endpoints[2].enabled
    /\ DOMAIN checks = {1}
    /\ Len(workers) = 1

\* C24: at any time at most one execution of probe and ProcessResult is in
\* progress for the endpoint, counting the worker's tick and a manual
\* trigger.
C24_OneExecutionPerEndpoint ==
    Cardinality({t \in Tasks : pc[t] # "idle"}) <= 1

\* C27: when a task stores its verdict, the previous status it hands to
\* ProcessResult is the status of the latest result stored at that moment
\* (pending when there is none).
C27_SaveStep(t) ==
    (pc[t] = "SaveResult" /\ pc'[t] # "SaveResult") => status[t] = LatestStatus

C27_PreviousStatusIsLatest == [][\A t \in Tasks : C27_SaveStep(t)]_vars

\* where ProcessResult goes once a verdict is stored, by previous status and
\* verdict, for the worker and for a manual trigger alike
C21_Transition(previousStatus, verdict) ==
    IF previousStatus = "up" /\ verdict = "down" THEN "ShouldAlert"
    ELSE IF previousStatus = "down" /\ verdict = "up" THEN "GetActiveIncident"
    ELSE "idle"

\* C21: a TriggerCheck call for an id the store does not hold returns an
\* error and changes nothing else (no probe result is held, nothing is
\* stored); a call for a stored endpoint reads the latest status and holds one
\* probe result, stores exactly that one result, then goes where a worker
\* tick with the same previous status and verdict goes, and returns nil; all
\* of it whether the worker map holds the endpoint or is empty.
C21_CallStep ==
    (call'.op = "TriggerCheck" /\ triggers' = triggers + 1) =>
        IF call'.id \notin DOMAIN endpoints
        THEN /\ returned'["trigger"] = "check not found"
             /\ call'.err = "check not found"
             /\ pc' = pc /\ result' = result /\ status' = status
             /\ results' = results /\ incidents' = incidents
             /\ alertLog' = alertLog /\ dispatches' = dispatches
        ELSE /\ pc'["trigger"] = "SaveResult"
             /\ status'["trigger"] = LatestStatus
             /\ result'["trigger"].check_id = call'.id
             /\ results' = results

C21_TaskStep(t) ==
    /\ (pc[t] = "SaveResult" /\ pc'[t] # pc[t]) =>
           /\ results' = Append(results, result[t])
           /\ pc'[t] = C21_Transition(status[t], result[t].status)
    /\ (pc[t] \notin {"idle", "SaveResult"} /\ pc'[t] # pc[t]) => results' = results
    /\ (pc[t] # "idle" /\ pc'[t] = "idle") => returned'[t] = Nil

C21_TriggerRunsOneCheck ==
    [][C21_CallStep /\ \A t \in Tasks : C21_TaskStep(t)]_vars

\* without any worker, manual triggers stored up, down, up: the second
\* opened an incident and the third closed it
C21_Witness ==
    /\ DOMAIN checks = {}
    /\ consecutiveFailures = 1
    /\ AllIdle
    /\ Len(results) = 3
    /\ results[2].status = "down"
    /\ Len(incidents) = 1
    /\ incidents[1].ended_at # <<>>
    /\ returned["trigger"] = Nil

\* a trigger for id 2, which the store does not hold, after one for id 1
C21_NotFoundWitness ==
    /\ DOMAIN checks = {}
    /\ call.op = "TriggerCheck"
    /\ call.id = 2
    /\ returned["trigger"] = "check not found"
    /\ Len(results) = 1

\* the status code a response is compared with
Wanted(expectedStatus) == IF expectedStatus = 0 THEN 200 ELSE expectedStatus

\* a response without an error whose status code is the wanted one
Healthy(response, expectedStatus) ==
    response.error = "" /\ response.status_code = Wanted(expectedStatus)

\* C29: DetermineStatus returns "up" exactly when the response carries no
\* error and its status code equals the expected status (200 when the
\* expected status is 0), "down" otherwise, and IsSuccess is true for exactly
\* the same inputs.
C29_VerdictAgreesWithIsSuccess ==
    exec.pc = "classified" =>
        /\ exec.status \in {"up", "down"}
        /\ exec.status = "up" <=> Healthy(exec.response, exec.expected)
        /\ exec.success <=> exec.status = "up"

\* a response with the default expected status was classified up, and so was
\* one with an explicit expected status other than 200
C29_Witness ==
    /\ exec.pc = "classified"
    /\ exec.expected = 0
    /\ exec.response = [error |-> "", status_code |-> 200]
    /\ exec.status = "up" /\ exec.success

C29_ErrorWitness ==
    /\ exec.pc = "classified"
    /\ exec.expected = 404
    /\ exec.response = [error |-> "timeout", status_code |-> 404]
    /\ exec.status = "down" /\ ~ exec.success

\* C30: Execute makes a second attempt exactly when the first attempt is not
\* a success and RetryDelay is positive, never makes more than two attempts,
\* and returns the response of the last attempt it made.
C30_RetryOnceOnFailure ==
    exec.pc # "idle" =>
        /\ Len(exec.attempts) \in {1, 2}
        /\ Len(exec.attempts) = 2 <=>
              (~ Healthy(exec.attempts[1], exec.expected) /\ exec.retry_delay > 0)
        /\ exec.out = exec.attempts[Len(exec.attempts)]

\* a failed first attempt was retried and the second attempt's response, a
\* success, was returned
C30_Witness ==
    /\ exec.pc = "returned"
    /\ exec.retry_delay = DefaultRetryDelaySecs
    /\ Len(exec.attempts) = 2
    /\ ~ Healthy(exec.attempts[1], exec.expected)
    /\ Healthy(exec.attempts[2], exec.expected)
    /\ exec.out = exec.attempts[2]

\* with the retry disabled a failed first attempt is what Execute returns
C30_NoRetryWitness ==
    /\ exec.pc = "returned"
    /\ exec.retry_delay = 0
    /\ Len(exec.attempts) = 1
    /\ ~ Healthy(exec.attempts[1], exec.expected)
    /\ exec.out = exec.attempts[1]

\* C28: after CleanupOldResults with cutoff T returns without error, no stored
\* result has a timestamp earlier than T, and every result with a timestamp at
\* or after T, every incident and every row of the alert log is unchanged.
C28_CleanupStep ==
    (CleanupOldResults /\ call'.err = Nil) =>
        /\ \A i \in DOMAIN results' : results'[i].checked_at >= call'.cutoff
        /\ results' = SelectSeq(results, LAMBDA row : row.checked_at >= call'.cutoff)
        /\ incidents' = incidents
        /\ alertLog' = alertLog

C28_CleanupDeletesExactlyTheOld == [][C28_CleanupStep]_vars

\* a cleanup deleted an old result and left one stamped with the cutoff
\* itself, next to an incident and a row of the alert log
C28_Witness ==
    /\ call.op = "CleanupOldResults" /\ call.err = Nil
    /\ call.deleted >= 1
    /\ Len(results) >= 1
    /\ results[1].checked_at = call.cutoff
    /\ incidents # <<>> /\ alertLog # <<>>

\* the tasks started before Stop was called
StartedBefore == 1..stopper.before

C23_AtMostOneLateProbe == \A i \in DOMAIN workers : TaskOf(i).late <= 1

\* C25: when a worker's tick finds that its endpoint no longer exists in the
\* store, the worker task terminates: it runs no further tick for it.
C25_GoneWorkerExits == \A i \in DOMAIN workers : TaskOf(i).gone <= 1

\* C26: when UpdateCheck(e) with e enabled returns, the worker installed for
\* e.ID was created from e (its ticker uses e's interval), also when an
\* AddCheck or another UpdateCheck for the same id runs between its remove
\* step and its add step.
C26_ReturnStep(c) ==
    (UpdateCheckSchedule(c) /\ callers[c].check.enabled) =>
        LET e == callers[c].check
        IN  /\ e.id \in DOMAIN checks'
            /\ workers'[checks'[e.id]] = ScheduledCheck(e)

C26_UpdateInstallsItsCheck == [][\A c \in Clients : C26_ReturnStep(c)]_vars

\* C38: no worker stop channel and not the broadcast stop channel is ever
\* closed twice: every sequence of Stop, RemoveCheck, UpdateCheck and
\* ReloadChecks calls completes without a close-of-closed-channel fault.
C38_NoDoubleClose ==
    /\ stopChan # "panic"
    /\ \A i \in DOMAIN workers : workers[i].stop # "panic"

\* C36: at any time at most one retention-sweep task is alive, across any
\* sequence of Start and ReloadChecks calls on the same scheduler.
C36_OneRetentionTask == Cardinality(AliveSweepers) <= 1

\* C39: after Stop has returned, no worker executes a probe any more, also
\* when AddCheck, UpdateCheck or ReloadChecks is called afterwards: such a
\* call starts no worker that still runs a probe.
C39_NoProbeAfterStop ==
    stopper.pc = "returned" => \A i \in DOMAIN workers : TaskOf(i).at # "probe"

\* C35: the retention task performs one sweep when the scheduler starts and
\* one after each 24-hour tick, with cutoff now minus retention_days (7 when
\* the configured value is below 1); a sweep that fails does not stop the
\* task, which sweeps again at the next tick; the task terminates once the
\* stop signal is broadcast.
C35_SweepStep(k) ==
    (SweepStartup(k) \/ SweepTick(k)) =>
        /\ sweeping'[k].cutoff = now - (IF retentionDays < 1 THEN 7 ELSE retentionDays)
        /\ sweeping'[k].at = "select"

C35_RetentionSweeps == [][\A k \in 1..sweepers : C35_SweepStep(k)]_vars

\* the clients that are reading or writing the worker map
Accessing ==
    {c \in Clients :
        callers[c].pc \in ExclusiveSections \cup SharedSections \cup UnlockedReads}

\* C34: every read or write of the scheduler's worker map happens while its
\* lock is held, exclusively in AddCheck and RemoveCheck, shared in
\* GetCheckCount; no access to the map (including in Start) runs at the same
\* time as an AddCheck's write.
C34_MapAccessUnderLock ==
    /\ \A c \in Accessing : c \in Writers \cup Readers
    /\ \A c \in Clients :
           callers[c].pc = "scheduleCheck" => Accessing = {c}

\* the read of len(s.checks) in Start while an AddCheck is writing the map
C34_RaceWitness ==
    \E c, d \in Clients :
        callers[c].pc = "scheduleCheck" /\ callers[d].pc = "Start"

AllUp(rs) == \A k \in 1..Len(rs) : rs[k].status = "up"

\* the verdict on the last attempt Execute made
FinalVerdict ==
    IF Healthy(exec.attempts[Len(exec.attempts)], exec.expected) THEN "up" ELSE "down"

\* a task takes a step of its tick or trigger
C31_TaskStep(t) ==
    /\ (pc[t] = "idle" /\ pc'[t] # "idle") => pc'[t] = "SaveResult"
    /\ (pc[t] = "SaveResult" /\ pc'[t] # "SaveResult") =>
           /\ Len(results') = Len(results) + 1
           /\ SubSeq(results', 1, Len(results)) = results
           /\ results'[Len(results')].check_id = CheckID
           /\ results'[Len(results')].status = FinalVerdict
    /\ (pc[t] # "SaveResult" /\ pc'[t] # pc[t]) => results' = results

\* C31: each worker tick or trigger on an existing endpoint appends exactly
\* one ProbeResult, whose verdict is that of the final attempt even when the
\* probe was retried; a stream of only up verdicts leaves the incident table
\* and the alert log empty.
C31_OneResultPerProbe ==
    /\ [][\A t \in Tasks : C31_TaskStep(t)]_vars
    /\ [](AllUp(results) => incidents = <<>> /\ alertLog = <<>>)

\* three up results and nothing else are stored, the last one from a trigger
\* whose first attempt failed and whose retry succeeded
C31_Witness ==
    /\ NoneInFlight
    /\ Len(results) = 3 /\ AllUp(results)
    /\ incidents = <<>> /\ alertLog = <<>>
    /\ triggers > 0
    /\ Len(exec.attempts) = 2
    /\ ~ Healthy(exec.attempts[1], exec.expected)
    /\ Healthy(exec.attempts[2], exec.expected)

\* the Manager was called in this step
Dispatched == Len(dispatches') = Len(dispatches) + 1

\* a down row is among the stored results
DownStored == \E k \in DOMAIN results : results[k].status = "down"

\* what holds when task t hands an alert to the Manager
C40_AlertStep(t) ==
    /\ (pc[t] = "SendDownAlert" /\ pc'[t] = "idle") =>
           /\ Dispatched
           /\ incident[t] \in DOMAIN incidents
           /\ incidents[incident[t]].check_id = result[t].check_id
           /\ dispatches'[Len(dispatches')].type = "down"
           /\ dispatches'[Len(dispatches')].incident_id = incident[t]
           /\ result[t].status = "down" /\ DownStored
           /\ status[t] # result[t].status
    /\ (pc[t] = "SendRecoveryAlert" /\ pc'[t] = "idle") =>
           /\ Dispatched
           /\ incident[t] \in DOMAIN incidents
           /\ incidents[incident[t]].ended_at # <<>>
           /\ dispatches'[Len(dispatches')].type = "recovery"
           /\ dispatches'[Len(dispatches')].incident_id = incident[t]
           /\ status[t] # result[t].status

\* C40: a DOWN alert is dispatched only after its incident and the down
\* result were stored and carries the stored incident's id, a RECOVERY alert
\* only after the incident was marked closed in the store, and no alert is
\* dispatched for a verdict equal to the previous status.
C40_AlertsFollowPersistence ==
    [][/\ \A t \in Tasks : C40_AlertStep(t)
       /\ Dispatched =>
              \E t \in Tasks : /\ pc[t] \in {"SendDownAlert", "SendRecoveryAlert"}
                               /\ pc'[t] = "idle"]_vars

\* a DOWN and a RECOVERY alert of the same stored incident went out by email
C40_Witness ==
    \E a, b \in DOMAIN dispatches :
        /\ dispatches[a].type = "down" /\ dispatches[a].ok # {}
        /\ dispatches[b].type = "recovery" /\ dispatches[b].ok # {}
        /\ dispatches[a].incident_id = dispatches[b].incident_id
        /\ incidents[dispatches[a].incident_id].ended_at # <<>>

\* C37: whenever the endpoint's latest stored verdict is up and no verdict
\* of the endpoint is being processed, the endpoint has no open incident,
\* also after a storage call failed during an earlier verdict.
C37_UpMeansNoOpenIncident ==
    ( /\ NoneInFlight
      /\ results # <<>>
      /\ results[Len(results)].status = "up" )
    => ActiveIncidents = {}

\* a CloseIncident call has just returned
C32_CloseStep ==
    /\ call'.op \in {"CloseIncident", "recovery"}
    /\ call' # call \/ incidents' # incidents

\* what a returned CloseIncident call has done to the table
C32_CloseEffect ==
    LET id == call'.id
        endedAt == call'.ended_at
    IN  /\ (call'.err = Nil) =>
               /\ id \in DOMAIN incidents
               /\ incidents'[id].ended_at = <<endedAt>>
               /\ SubSecond * incidents'[id].duration_seconds
                      \in IF endedAt >= incidents[id].started_at
                          THEN (endedAt - incidents[id].started_at - SubSecond + 1)
                                   ..(endedAt - incidents[id].started_at)
                          ELSE (endedAt - incidents[id].started_at)
                                   ..(endedAt - incidents[id].started_at + SubSecond - 1)
               /\ \A j \in DOMAIN incidents \ {id} : incidents'[j] = incidents[j]
               /\ DOMAIN incidents' = DOMAIN incidents
        /\ (call'.err # Nil) => incidents' = incidents
        /\ (id \notin DOMAIN incidents) => call'.err # Nil
        /\ (call'.op = "recovery" /\ call'.err = Nil) =>
               /\ incidents'[id].ended_at[1] >= incidents'[id].started_at
               /\ incidents'[id].duration_seconds >= 0

\* C32: CloseIncident(id, endedAt) on an existing incident sets ended_at to
\* endedAt and duration_seconds to the whole seconds of endedAt minus
\* started_at, truncated; every incident closed by the state machine has
\* ended_at not earlier than started_at and a duration of at least 0; and
\* CloseIncident of an id with no incident returns an error and changes
\* nothing.
C32_CloseIncident == [][C32_CloseStep => C32_CloseEffect]_vars

\* an incident was closed a second and a fraction after its start with a
\* duration of one second, and a later call for an id without a row failed
C32_Witness ==
    /\ call.op = "CloseIncident" /\ call.err = "incident not found"
    /\ \E i \in DOMAIN incidents :
           /\ incidents[i].ended_at # <<>>
           /\ incidents[i].ended_at[1] - incidents[i].started_at = SubSecond + 1
           /\ incidents[i].duration_seconds = 1

\* C33: at all times every result and every incident references an existing
\* endpoint and every alert row an existing incident, so that after
\* DeleteCheck(id) no result, incident or alert-log row of that endpoint
\* remains, also when a worker of the deleted endpoint is still finishing a
\* probe.
C33_NoOrphanRows ==
    /\ \A k \in DOMAIN results : results[k].check_id \in DOMAIN endpoints
    /\ \A i \in StoredIncidents : incidents[i].check_id \in DOMAIN endpoints
    /\ \A k \in DOMAIN alertLog : alertLog[k].incident_id \in StoredIncidents

====
